---- MODULE Spec2Model ----
(***************************************************************************)
(* Cloudflare AI Gateway + OpenAI proof of concept.                        *)
(*                                                                         *)
(* The repository holds several independent programs; one behaviour of     *)
(* this module is one run of one of them, chosen by `program`:             *)
(*   "tester"   test-chat-completion.js  (ChatCompletionTester)            *)
(*   "chat"     the browser text chat    (ChatManager + ConfigManager)     *)
(*   "realtime" src/js/realtime.js       (RealtimeGatewayManager)          *)
(*   "gateway"  test-gateway-node.js     (GatewayTester)                   *)
(*   "config"   src/js/config.js         (ConfigManager called directly)   *)
(*   "streaming"    the browser text chat (StreamingChatManager)            *)
(*   "voice"        src/js/realtime.js    (recording)                       *)
(*   "conversation" src/js/realtime.js    (the events of the client)        *)
(*   "inbound"      test-gateway-node.js  (the frames of the socket)        *)
(*   "tests"        test-chat-completion.js (runTests)                      *)
(*   "pushToTalk"   src/js/realtime-direct.js (DirectRealtimeManager)       *)
(* An `await` is a suspension point: the code before it and the code after *)
(* it are separate actions, and other handlers may run in between.         *)
(***************************************************************************)
EXTENDS Integers, Sequences, FiniteSets, TLC

VARIABLES
    program,
    \* ---- test-chat-completion.js
    testerConfig,          \* the config object handed to ChatCompletionTester
    conversationHistory,   \* ChatCompletionTester.conversationHistory
    interactive,           \* startInteractive has installed the line handler
    testerCalls,           \* sendMessage calls suspended in `await fetch`
    testerSends,           \* number of chat lines entered so far
    lastSend,              \* the sendMessage call that settled last (0 or 1 record)
    testsPc,               \* number of requests runTests has issued
    testCalls,             \* the request of runTests suspended in `await fetch`
    testLog,               \* what runTests has logged for each request so far
    \* ---- src/js/config.js
    config,                \* ConfigManager.config
    configResult,          \* what the ConfigManager method called last returned
    \* ---- the browser text chat
    messages,              \* ChatManager.messages
    isProcessing,          \* ChatManager.isProcessing
    sendButtonDisabled,    \* sendButton.disabled
    chatCalls,             \* the sendMessage call suspended in `await fetch`
    chatSends,             \* number of messages sent so far
    lastChat,              \* the sendMessage call that returned last (0 or 1 record)
    streamPhase,           \* where StreamingChatManager.sendMessage is suspended
    fullContent,           \* its local fullContent
    streamLines,           \* the lines it has read from the response so far
    lastStream,            \* the streamed response that ended last (0 or 1 record)
    \* ---- src/js/realtime.js
    client,                \* RealtimeGatewayManager.client, 0 = null
    clients,               \* every RealtimeClient created so far, by number
    isConnected,           \* RealtimeGatewayManager.isConnected
    connectionStatus,      \* what updateConnectionStatus showed last
    connectCalls,          \* connect() calls suspended in `await client.connect()`
    disconnectCalls,       \* disconnect() calls suspended in `await client.disconnect()`
    realtimeLast,          \* the step the manager took last
    isRecording,           \* RealtimeGatewayManager.isRecording
    mediaRecorder,         \* RealtimeGatewayManager.mediaRecorder, 0 = null
    streams,               \* every microphone stream asked for so far, by number
    readers,               \* FileReaders still encoding an audio chunk
    chunks,                \* number of audio chunks delivered so far
    disconnectedSince,     \* disconnect() returned after the last startRecording() call
    isPTTActive,           \* the isPTTActive flag of the push-to-talk handlers
    conversationMessages,  \* the messages the client's events put in #conversationMessages
    interrupted,           \* the assistant message an interruption cut, as it was then
    events,                \* number of client events handled so far
    \* ---- test-gateway-node.js
    gatewayConfig,         \* the config object handed to GatewayTester
    ws,                    \* GatewayTester.ws, 0 = null
    sockets,               \* every WebSocket created so far, by number
    promises,              \* the promise each connect() returned, by socket
    gatewayLast,           \* the step the tester took last
    sent,                  \* what was written on each socket, in order
    timers,                \* sockets whose 'open' handler's timer is running
    lineHandler,           \* startInteractive has installed the line handler
    gatewayLines           \* number of input lines handled so far

testerVars == <<testerConfig, conversationHistory, interactive, testerCalls,
                testerSends, lastSend, testsPc, testCalls, testLog>>

configVars == <<config, configResult>>

streamVars == <<streamPhase, fullContent, streamLines, lastStream>>

chatVars == <<messages, isProcessing, sendButtonDisabled, chatCalls, chatSends,
              lastChat, streamVars>>

recordingVars == <<isRecording, mediaRecorder, streams, readers, chunks,
                   disconnectedSince, isPTTActive>>

realtimeVars == <<client, clients, isConnected, connectionStatus, connectCalls,
                  disconnectCalls, realtimeLast, recordingVars,
                  conversationMessages, interrupted, events>>

gatewayVars == <<gatewayConfig, ws, sockets, promises, gatewayLast, sent,
                 timers, lineHandler, gatewayLines>>

vars == <<program, testerVars, configVars, chatVars, realtimeVars, gatewayVars>>

-----------------------------------------------------------------------------
(* Bounds of the model *)

MaxSends == 2      \* chat lines entered in one run of the tester
MaxCalls == 2      \* sendMessage calls in flight at once
MaxChatSends == 2  \* messages sent in one run of the browser chat
MaxClients == 2    \* RealtimeClient objects created in one run of the voice page
MaxSockets == 1    \* WebSockets created in one run of the gateway tester
MaxLines == 1      \* input lines handled in one run of the gateway tester
MaxFrames == 3     \* lines read from one streamed response
MaxLog == 1        \* messages in the log when a streamed exchange starts
MaxStreams == 1    \* microphone streams asked for in one run of the voice page
MaxChunks == 1     \* audio chunks delivered in one run of the voice page
MaxEvents == 3     \* client events handled in one run of the voice page

-----------------------------------------------------------------------------
(* Values *)

Programs == {"tester", "config", "chat", "streaming", "realtime", "gateway",
             "voice", "inbound", "tests", "conversation", "pushToTalk"}

\* The runs of the voice page: "realtime" follows the connection under
\* changing configurations, "voice" follows recording under a valid one,
\* "conversation" follows the events of the client under a valid one.
\* "pushToTalk" is the direct voice page, src/js/realtime-direct.js: its
\* DirectRealtimeManager has the connect (but for the URL and the check of
\* the configuration, which asks for the API key alone), disconnect,
\* startRecording and stopRecording of RealtimeGatewayManager, statement by
\* statement, and the push-to-talk button on top of them.
RealtimePages == {"realtime", "voice", "conversation", "pushToTalk"}

\* The runs in which the microphone is used.
RecordingPages == {"voice", "pushToTalk"}

\* The runs of the gateway tester: "gateway" follows the connection and the
\* input lines, "inbound" the connection and the frames it delivers.
GatewayPrograms == {"gateway", "inbound"}

Keys      == {"sk-1"}              \* OpenAI API keys
\* Gateway auth tokens, "" = none. The classes take any config object; the
\* main() of both Node scripts passes one whose token is never empty.
Tokens    == {"", "cf-tok"}
Models    == {"gpt-4o-mini", "gpt-4"}
UserTexts == {"u1", "u2"}
Replies   == {"a1"}

DefaultSystemPrompt == "You are a helpful assistant connected through Cloudflare AI Gateway."
OtherSystemPrompt   == "You are a pirate."

Message(role, content) == [role |-> role, content |-> content]

\* Array.prototype.pop: drops the last element, whatever it is; no-op on [].
Pop(s) == IF s = <<>> THEN <<>> ELSE SubSeq(s, 1, Len(s) - 1)

Bearer(key) == <<"Bearer ", key>>

\* How a chat-completion request can end.
\*   ok        2xx, JSON body whose choices[0].message is an assistant message
\*   nochoices 2xx, JSON body without choices (or with an empty list)
\*   nomessage 2xx, JSON body whose choices[0] has no message
\*   http      non-2xx status
\*   network   fetch rejects
Outcomes == {"ok", "nochoices", "nomessage", "http", "network"}
Failed(kind) == kind \in {"http", "network"}

-----------------------------------------------------------------------------
(* test-chat-completion.js: ChatCompletionTester *)

TesterBaseUrl(cfg) ==
    <<"https://gateway.ai.cloudflare.com/v1/", cfg.accountId, "/", cfg.gatewayId, "/openai">>

\* The headers sendChatCompletion builds: the Authorization line is commented
\* out in the source, and the gateway token is sent raw.
TesterHeaders(cfg) ==
    {<<"Content-Type", <<"application/json">>>>}
    \cup (IF cfg.cfAuthToken # ""
          THEN {<<"cf-aig-authorization", <<cfg.cfAuthToken>>>>}
          ELSE {})

\* The request built from the history as it was before the user message of
\* the call was pushed.
TesterRequest_beforePush(cfg, msgs) ==
    [by       |-> "ChatCompletionTester",
     key      |-> cfg.openaiKey,
     url      |-> TesterBaseUrl(cfg) \o <<"/chat/completions">>,
     headers  |-> TesterHeaders(cfg),
     model    |-> cfg.model,
     messages |-> Pop(msgs),
     stream   |-> FALSE]

\* The request sendChatCompletion issues: the body is serialized before the
\* await, so it holds the messages of the array as it is at the call.
TesterRequest(cfg, msgs) ==
    [by       |-> "ChatCompletionTester",
     key      |-> cfg.openaiKey,
     url      |-> TesterBaseUrl(cfg) \o <<"/chat/completions">>,
     headers  |-> TesterHeaders(cfg),
     model    |-> cfg.model,
     messages |-> msgs,
     stream   |-> FALSE]

\* startInteractive: seeds the history and installs the line handler.
startInteractive ==
    /\ program = "tester"
    /\ ~interactive
    /\ interactive' = TRUE
    /\ conversationHistory' =
           <<Message("system", DefaultSystemPrompt)>>
    /\ UNCHANGED <<program, configVars, chatVars, realtimeVars, gatewayVars, testsPc, testCalls, testLog,
                   testerConfig, testerCalls, testerSends, lastSend>>

FreeIds == (1 .. MaxCalls) \ {c.id : c \in testerCalls}

\* sendMessage up to `await fetch(...)`: push the user message, build and
\* issue the request.
sendMessage_call(text) ==
    /\ program = "tester"
    /\ interactive
    /\ testerSends < MaxSends
    /\ FreeIds # {}
    /\ LET id   == CHOOSE i \in FreeIds : \A j \in FreeIds : i <= j
           hist == Append(conversationHistory, Message("user", text))
       IN  /\ conversationHistory' = hist
           /\ testerCalls' =
                  {[c EXCEPT !.overlapped = TRUE] : c \in testerCalls}
                  \cup {[id         |-> id,
                         request    |-> TesterRequest(testerConfig, hist),
                         before     |-> conversationHistory,
                         overlapped |-> testerCalls # {},
                         reset      |-> FALSE]}
    /\ testerSends' = testerSends + 1
    /\ UNCHANGED <<program, configVars, chatVars, realtimeVars, gatewayVars, testsPc, testCalls, testLog,
                   testerConfig, interactive, lastSend>>

\* sendMessage without the pop of its catch block.
HistoryAfter_noRollback(hist, kind, reply) ==
    IF kind = "ok" THEN Append(hist, Message("assistant", reply)) ELSE hist

\* The history sendMessage leaves once its request has settled as `kind`.
\*   ok:        the assistant message is pushed.
\*   nochoices: the `if` is skipped; nothing changes.
\*   nomessage: undefined is pushed, reading its .content throws, and the
\*              catch block pops it again.
\*   http, network: sendChatCompletion rethrows; the catch block pops.
HistoryAfter(hist, kind, reply) ==
    CASE kind = "ok"        -> Append(hist, Message("assistant", reply))
      [] kind = "nochoices" -> hist
      [] kind = "nomessage" -> Pop(Append(hist, Message("undefined", "")))
      [] OTHER              -> Pop(hist)

\* What the caller of sendMessage sees: sendMessage has no rethrow, so every
\* path returns; only the ok path returns the reply text.
SendResult(kind, reply) ==
    IF kind = "ok"
    THEN [completion |-> "returned", value |-> reply]
    ELSE [completion |-> "returned", value |-> "undefined"]

\* sendMessage from the settling of its request to its return. The record of
\* the call notes whether the reply ended up right after the user message of
\* the call, and whether the history lost that user message and nothing else.
sendMessage_settle(c, kind, reply) ==
    /\ program = "tester"
    /\ c \in testerCalls
    /\ conversationHistory' = HistoryAfter(conversationHistory, kind, reply)
    /\ testerCalls' = testerCalls \ {c}
    /\ LET own == c.request.messages[Len(c.request.messages)]
           h   == conversationHistory'
       IN  lastSend' =
               {[kind       |-> kind,
                 restored   |-> h = c.before,
                 grew       |-> Len(h) - Len(c.before),
                 overlapped |-> c.overlapped,
                 reset      |-> c.reset,
                 result     |-> SendResult(kind, reply),
                 follows    |-> /\ Len(h) >= 2
                                /\ h[Len(h)] = Message("assistant", reply)
                                /\ h[Len(h) - 1] = own,
                 ownRemoved |-> \E i \in 1 .. Len(conversationHistory) :
                                    /\ conversationHistory[i] = own
                                    /\ h = [j \in 1 .. Len(conversationHistory) - 1 |->
                                                IF j < i THEN conversationHistory[j]
                                                         ELSE conversationHistory[j + 1]]]}
    /\ UNCHANGED <<program, configVars, chatVars, realtimeVars, gatewayVars, testsPc, testCalls, testLog,
                   testerConfig, interactive, testerSends>>

\* The /clear and /system commands replace the history array.
ResetHistory(prompt) ==
    /\ conversationHistory' = <<Message("system", prompt)>>
    /\ testerCalls' = {[c EXCEPT !.reset = TRUE] : c \in testerCalls}
    /\ UNCHANGED <<program, configVars, chatVars, realtimeVars, gatewayVars, testsPc, testCalls, testLog,
                   testerConfig, interactive, testerSends, lastSend>>

command_clear ==
    /\ program = "tester"
    /\ interactive
    /\ ResetHistory(DefaultSystemPrompt)

command_system ==
    /\ program = "tester"
    /\ interactive
    /\ ResetHistory(OtherSystemPrompt)

\* The /model command.
command_model(m) ==
    /\ program = "tester"
    /\ interactive
    /\ m # testerConfig.model
    /\ testerConfig' = [testerConfig EXCEPT !.model = m]
    /\ UNCHANGED <<program, configVars, chatVars, realtimeVars, gatewayVars, testsPc, testCalls, testLog,
                   conversationHistory, interactive, testerCalls,
                   testerSends, lastSend>>

TesterInit ==
    /\ testerConfig \in [accountId : {"acc"}, gatewayId : {"gw"},
                         openaiKey : Keys,
                         cfAuthToken : IF program = "tester" THEN Tokens ELSE {""},
                         model : {"gpt-4o-mini"}]
    \* runTests is called by main() before startInteractive (empty history)
    \* or by the /test command, with the history of the chat so far.
    /\ conversationHistory \in
           IF program = "tests"
           THEN {<<>>,
                 <<Message("system", DefaultSystemPrompt)>>,
                 <<Message("system", DefaultSystemPrompt), Message("user", "u1"),
                   Message("assistant", "a1")>>}
           ELSE {<<>>}
    /\ interactive = (conversationHistory # <<>>)
    /\ testerCalls = {}
    /\ testerSends = 0
    /\ lastSend = {}
    /\ testsPc = 0
    /\ testCalls = {}
    /\ testLog = <<>>

TesterNext ==
    \/ startInteractive
    \/ \E text \in UserTexts : sendMessage_call(text)
    \/ \E c \in testerCalls, kind \in Outcomes, reply \in Replies :
           sendMessage_settle(c, kind, reply)
    \/ command_clear
    \/ command_system
    \/ \E m \in Models : command_model(m)

\* The default temperature of a request, in tenths: 0.7.
DefaultTemperature == 7

\* The body sendChatCompletion serializes for (messages, options).
\* `options.x || d` takes d when x is missing and also when x is falsy: 0 for
\* a number, '' for a string. Temperatures are in tenths.
sendChatCompletion(cfg, msgs, options) ==
    [TesterRequest(cfg, msgs) EXCEPT
         !.model = IF "model" \in DOMAIN options /\ options.model # ""
                   THEN options.model ELSE cfg.model]
    @@ [temperature |-> IF "temperature" \in DOMAIN options
                           /\ options.temperature # 0
                        THEN options.temperature ELSE DefaultTemperature,
        max_tokens  |-> 1000]

\* The requests of runTests, in the order it issues them: test 1, test 2 for
\* three models, test 3 for the temperatures 0, 0.5 and 1.0, test 4, test 5.
TestCalls ==
    <<[messages |-> <<Message("system", "You are a helpful assistant."),
                      Message("user", "Say hello")>>,
       options  |-> <<>>],
      [messages |-> <<Message("user", "What model are you?")>>,
       options  |-> [model |-> "gpt-3.5-turbo"]],
      [messages |-> <<Message("user", "What model are you?")>>,
       options  |-> [model |-> "gpt-4"]],
      [messages |-> <<Message("user", "What model are you?")>>,
       options  |-> [model |-> "gpt-4o-mini"]],
      [messages |-> <<Message("user", "Generate a random number")>>,
       options  |-> [temperature |-> 0]],
      [messages |-> <<Message("user", "Generate a random number")>>,
       options  |-> [temperature |-> 5]],
      [messages |-> <<Message("user", "Generate a random number")>>,
       options  |-> [temperature |-> 10]],
      [messages |-> <<Message("system", OtherSystemPrompt),
                      Message("user", "How are you today?")>>,
       options  |-> <<>>],
      [messages |-> <<Message("user", "Remember the number 42."),
                      Message("assistant", "I'll remember the number 42."),
                      Message("user", "What number?")>>,
       options  |-> <<>>]>>

\* runTests up to the `await` of its next request.
runTests_call ==
    /\ program = "tests"
    /\ testCalls = {}
    /\ testsPc < Len(TestCalls)
    /\ testsPc' = testsPc + 1
    /\ testCalls' =
           {[test    |-> testsPc',
             options |-> TestCalls[testsPc'].options,
             request |-> sendChatCompletion(testerConfig,
                                            TestCalls[testsPc'].messages,
                                            TestCalls[testsPc'].options)]}
    /\ UNCHANGED <<program, configVars, chatVars, realtimeVars, gatewayVars,
                   testerConfig, conversationHistory, interactive, testerCalls,
                   testerSends, lastSend, testLog>>

\* runTests that keeps the reply of each test in the history, as sendMessage
\* does.
runTests_settle_keepsReply(kind) ==
    /\ program = "tests"
    /\ testCalls # {}
    /\ testCalls' = {}
    /\ conversationHistory' =
           IF kind = "ok"
           THEN Append(conversationHistory, Message("assistant", "a1"))
           ELSE conversationHistory
    /\ testLog' = Append(testLog, CASE kind = "ok"        -> "passed"
                                    [] kind = "nochoices" -> "none"
                                    [] OTHER              -> "failed")
    /\ UNCHANGED <<program, configVars, chatVars, realtimeVars, gatewayVars,
                   testerConfig, interactive, testerCalls,
                   testerSends, lastSend, testsPc>>

\* runTests from the settling of a request to the next one: a first choice
\* is logged as a pass; a response without choices logs nothing; a failed
\* request, or a choice without a message, is caught and logged as a failure.
runTests_settle(kind) ==
    /\ program = "tests"
    /\ testCalls # {}
    /\ testCalls' = {}
    /\ testLog' = Append(testLog, CASE kind = "ok"        -> "passed"
                                    [] kind = "nochoices" -> "none"
                                    [] OTHER              -> "failed")
    /\ UNCHANGED <<program, configVars, chatVars, realtimeVars, gatewayVars,
                   testerConfig, conversationHistory, interactive, testerCalls,
                   testerSends, lastSend, testsPc>>

-----------------------------------------------------------------------------
(* src/js/config.js: ConfigManager *)

\* The configurations a page can hold: loadConfig returns what was saved, or
\* the all-empty default; text fields are trimmed when they are saved.
Configs ==
    [accountId : {"", "acc"}, gatewayId : {"", "gw"}, openaiKey : {"", "sk-1"},
     cfAuthToken : {"", "cf-tok"}, useAuthGateway : BOOLEAN,
     model : {"gpt-4o-mini"}, voice : {"alloy"}]

DefaultConfig ==
    [accountId |-> "", gatewayId |-> "", openaiKey |-> "", cfAuthToken |-> "",
     useAuthGateway |-> FALSE, model |-> "gpt-4o-mini", voice |-> "alloy"]

\* A thrown Error, as a value.
Throws(message) == [threw |-> TRUE, value |-> <<message>>]
Returns(value)  == [threw |-> FALSE, value |-> value]

getCloudflareBaseUrl(cfg) ==
    IF cfg.accountId = "" \/ cfg.gatewayId = ""
    THEN Throws("Cloudflare Account ID and Gateway ID are required")
    ELSE Returns(<<"https://gateway.ai.cloudflare.com/v1/", cfg.accountId, "/",
                   cfg.gatewayId, "/openai">>)

\* getWebSocketUrl without the check of accountId and gatewayId.
getWebSocketUrl_unchecked(cfg) ==
    Returns(<<"wss://gateway.ai.cloudflare.com/v1/", cfg.accountId, "/",
              cfg.gatewayId, "/openai/realtime">>)

getWebSocketUrl(cfg) ==
    IF cfg.accountId = "" \/ cfg.gatewayId = ""
    THEN Throws("Cloudflare Account ID and Gateway ID are required")
    ELSE Returns(<<"wss://gateway.ai.cloudflare.com/v1/", cfg.accountId, "/",
                   cfg.gatewayId, "/openai/realtime">>)

\* getHeaders without the useAuthGateway test.
getHeaders_gatewayAuthAlways(cfg) ==
    {<<"Content-Type", <<"application/json">>>>}
    \cup (IF cfg.openaiKey # ""
          THEN {<<"Authorization", Bearer(cfg.openaiKey)>>} ELSE {})
    \cup (IF cfg.cfAuthToken # ""
          THEN {<<"cf-aig-authorization", Bearer(cfg.cfAuthToken)>>} ELSE {})

getHeaders(cfg) ==
    {<<"Content-Type", <<"application/json">>>>}
    \cup (IF cfg.openaiKey # ""
          THEN {<<"Authorization", Bearer(cfg.openaiKey)>>} ELSE {})
    \cup (IF cfg.useAuthGateway /\ cfg.cfAuthToken # ""
          THEN {<<"cf-aig-authorization", Bearer(cfg.cfAuthToken)>>} ELSE {})

getWebSocketHeaders(cfg) ==
    (IF cfg.openaiKey # ""
     THEN {<<"Authorization", Bearer(cfg.openaiKey)>>} ELSE {})
    \cup (IF cfg.useAuthGateway /\ cfg.cfAuthToken # ""
          THEN {<<"cf-aig-authorization", Bearer(cfg.cfAuthToken)>>} ELSE {})
    \cup {<<"OpenAI-Beta", <<"realtime=v1">>>>}

\* validateConfig().errors
validationErrors(cfg) ==
    (IF cfg.accountId = "" THEN {"Cloudflare Account ID is required"} ELSE {})
    \cup (IF cfg.gatewayId = "" THEN {"Gateway ID is required"} ELSE {})
    \cup (IF cfg.openaiKey = "" THEN {"OpenAI API Key is required"} ELSE {})
    \cup (IF cfg.useAuthGateway /\ cfg.cfAuthToken = ""
          THEN {"CF AI Gateway Auth Token is required when using Authenticated Gateway"}
          ELSE {})

\* validateConfig() that asks for the API key alone.
validateConfig_keyOnly(cfg) == cfg.openaiKey # ""

\* validateConfig().valid
validateConfig(cfg) == validationErrors(cfg) = {}

\* The configurations tried on each page: all of them where the configuration
\* is what the page is about, and on the voice page one valid configuration
\* and one without an API key.
PageConfigs ==
    IF program \in {"config", "chat"} THEN Configs
    ELSE IF program = "realtime"
    THEN {c \in Configs : /\ c.accountId = "acc" /\ c.gatewayId = "gw"
                          /\ c.cfAuthToken = "" /\ ~c.useAuthGateway}
    ELSE IF program \in {"voice", "streaming", "conversation", "pushToTalk"}
    THEN {c \in Configs : /\ c.accountId = "acc" /\ c.gatewayId = "gw"
                          /\ c.openaiKey = "sk-1"
                          /\ c.cfAuthToken = "" /\ ~c.useAuthGateway}
    ELSE {DefaultConfig}

\* saveConfig(updates): the save button hands over every field of the form.
saveConfig(updates) ==
    /\ updates \in PageConfigs
    /\ updates # config
    /\ config' = updates
    /\ UNCHANGED <<program, testerVars, chatVars, realtimeVars, gatewayVars, configResult>>

\* A method of the exported configManager called on the current config.
ConfigCall(fn, result) ==
    /\ program = "config"
    /\ configResult' = {[fn |-> fn, cfg |-> config, result |-> result]}
    /\ UNCHANGED <<program, testerVars, chatVars, realtimeVars, gatewayVars, config>>

call_getHeaders           == ConfigCall("getHeaders", Returns(getHeaders(config)))
call_getWebSocketHeaders  == ConfigCall("getWebSocketHeaders",
                                        Returns(getWebSocketHeaders(config)))
call_getCloudflareBaseUrl == ConfigCall("getCloudflareBaseUrl",
                                        getCloudflareBaseUrl(config))
call_getWebSocketUrl      == ConfigCall("getWebSocketUrl", getWebSocketUrl(config))

ConfigInit ==
    /\ config \in PageConfigs
    /\ configResult = {}

ConfigNext ==
    \/ \E updates \in Configs : saveConfig(updates)
    \/ call_getHeaders
    \/ call_getWebSocketHeaders
    \/ call_getCloudflareBaseUrl
    \/ call_getWebSocketUrl

-----------------------------------------------------------------------------
(* The browser text chat: ChatManager *)

ChatRequest(cfg, msgs) ==
    [by       |-> "ChatManager",
     key      |-> cfg.openaiKey,
     url      |-> getCloudflareBaseUrl(cfg).value \o <<"/chat/completions">>,
     headers  |-> getHeaders(cfg),
     model    |-> cfg.model,
     messages |-> msgs,
     stream   |-> FALSE]

\* sendMessage up to `await fetch(...)`, for a non-empty input and a valid
\* configuration.
ChatManager_sendMessage_call(text) ==
    /\ program = "chat"
    /\ chatSends < MaxChatSends
    /\ ~isProcessing
    /\ validateConfig(config)
    /\ isProcessing' = TRUE
    /\ sendButtonDisabled' = TRUE
    /\ messages' = Append(messages, Message("user", text))
    /\ chatCalls' = {[request |-> ChatRequest(config, messages'),
                      before  |-> messages,
                      cleared |-> FALSE]}
    /\ chatSends' = chatSends + 1
    /\ UNCHANGED <<program, testerVars, configVars, realtimeVars, gatewayVars, lastChat,
                   streamVars>>

\* sendMessage for a non-empty input and a configuration that validateConfig
\* rejects: the errors are shown in the page and the function returns.
ChatManager_sendMessage_invalid ==
    /\ program = "chat"
    /\ ~isProcessing
    /\ ~validateConfig(config)
    /\ lastChat' = {[kind |-> "invalid", grew |-> 0, cleared |-> FALSE,
                     follows |-> FALSE]}
    /\ UNCHANGED <<program, testerVars, configVars, realtimeVars, gatewayVars,
                   messages, isProcessing, sendButtonDisabled, chatCalls,
                   chatSends, streamVars>>

\* The log sendMessage leaves once its request has settled as `kind`: only a
\* usable first choice is pushed; the catch block touches the DOM alone.
MessagesAfter(msgs, kind, reply) ==
    IF kind = "ok" THEN Append(msgs, Message("assistant", reply)) ELSE msgs

\* sendMessage with the reset of isProcessing and of the button at the end of
\* the try block instead of in `finally`.
ChatManager_sendMessage_settle_noFinally(c, kind, reply) ==
    /\ program = "chat"
    /\ c \in chatCalls
    /\ messages' = MessagesAfter(messages, kind, reply)
    /\ isProcessing' = (kind # "ok")
    /\ sendButtonDisabled' = (kind # "ok")
    /\ chatCalls' = chatCalls \ {c}
    /\ lastChat' = {[kind    |-> kind,
                     grew    |-> Len(messages') - Len(c.before),
                     cleared |-> c.cleared,
                     follows |-> /\ Len(messages') >= 2
                                 /\ messages'[Len(messages')] =
                                        Message("assistant", reply)
                                 /\ messages'[Len(messages') - 1] =
                                        c.request.messages[Len(c.request.messages)]]}
    /\ UNCHANGED <<program, testerVars, configVars, realtimeVars, gatewayVars, chatSends,
                   streamVars>>

\* sendMessage from the settling of its request to its return, `finally`
\* included.
ChatManager_sendMessage_settle(c, kind, reply) ==
    /\ program = "chat"
    /\ c \in chatCalls
    /\ messages' = MessagesAfter(messages, kind, reply)
    /\ isProcessing' = FALSE
    /\ sendButtonDisabled' = FALSE
    /\ chatCalls' = chatCalls \ {c}
    /\ lastChat' = {[kind    |-> kind,
                     grew    |-> Len(messages') - Len(c.before),
                     cleared |-> c.cleared,
                     follows |-> /\ Len(messages') >= 2
                                 /\ messages'[Len(messages')] =
                                        Message("assistant", reply)
                                 /\ messages'[Len(messages') - 1] =
                                        c.request.messages[Len(c.request.messages)]]}
    /\ UNCHANGED <<program, testerVars, configVars, realtimeVars, gatewayVars, chatSends,
                   streamVars>>

clearChat ==
    /\ program = "chat"
    /\ messages' = <<>>
    /\ chatCalls' = {[c EXCEPT !.cleared = TRUE] : c \in chatCalls}
    /\ UNCHANGED <<program, testerVars, configVars, realtimeVars, gatewayVars, isProcessing,
                   sendButtonDisabled, chatSends, lastChat, streamVars>>

ChatInit ==
    /\ messages = <<>>
    /\ isProcessing = FALSE
    /\ sendButtonDisabled = FALSE
    /\ chatCalls = {}
    /\ chatSends = 0
    /\ lastChat = {}
    /\ streamPhase = "idle"
    /\ fullContent = <<>>
    /\ streamLines = <<>>
    /\ lastStream = {}

ChatNext ==
    \/ \E text \in UserTexts : ChatManager_sendMessage_call(text)
    \/ \E c \in chatCalls, kind \in Outcomes, reply \in Replies :
           ChatManager_sendMessage_settle(c, kind, reply)
    \/ clearChat
    \/ ChatManager_sendMessage_invalid
    \/ \E updates \in Configs : saveConfig(updates)

-----------------------------------------------------------------------------
(* The browser text chat: StreamingChatManager.                             *)
(* The response body is read chunk by chunk; every chunk is decoded and     *)
(* split into lines on its own, so a line that a read boundary cuts in two  *)
(* arrives as two lines.                                                    *)

\* The content of a delta, as the pieces it is concatenated from.
Contents == {<<"He">>, <<"llo">>}

\* The lines a chunk can hold:
\*   delta c  'data: ' and a well-formed frame whose delta content is c
\*   done     'data: [DONE]'
\*   bad      'data: ' and text that is not JSON
\*   head c   the first part of a delta frame cut by the end of the chunk
\*   tail c   the rest of that frame, at the start of the next chunk
Lines ==
    {<<"delta", c>> : c \in Contents} \cup {<<"done">>, <<"bad">>}
    \cup {<<"head", <<"llo">>>>, <<"tail", <<"llo">>>>}

\* The chunks of at most n lines.
Chunks(n) == UNION {[1 .. len -> Lines] : len \in 1 .. n}

\* A chunk that can follow the lines read so far: a head is the last line of
\* its chunk, and a tail is the first line of the chunk after its head.
CanFollow(chunk, lines) ==
    /\ \A i \in 1 .. Len(chunk) :
           /\ chunk[i][1] = "head" => i = Len(chunk)
           /\ chunk[i][1] = "tail" =>
                  /\ i = 1
                  /\ lines # <<>>
                  /\ lines[Len(lines)] = <<"head", chunk[i][2]>>
    /\ (lines # <<>> /\ lines[Len(lines)][1] = "head") => chunk[1][1] = "tail"

\* The body of the `for` loop with a line whose JSON error is not caught.
FoldLine_abortOnBad(content, line) ==
    IF line[1] = "delta" THEN content \o line[2]
    ELSE IF line[1] \in {"bad", "head"} THEN <<>>
    ELSE content

\* The body of the `for` loop: fullContent after one line. A line that does
\* not start with 'data: ' is passed over, [DONE] is passed over, a JSON
\* error is caught, and a non-empty delta content is added.
FoldLine(content, line) ==
    IF line[1] = "delta" THEN content \o line[2] ELSE content

RECURSIVE FoldChunk(_, _)
\* The `for` loop over the lines of one chunk.
FoldChunk(content, chunk) ==
    IF chunk = <<>> THEN content
    ELSE FoldChunk(FoldLine(content, Head(chunk)), Tail(chunk))

StreamRequest(cfg, msgs) ==
    [ChatRequest(cfg, msgs) EXCEPT !.by = "StreamingChatManager", !.stream = TRUE]

\* sendMessage up to `await fetch(...)`, for a non-empty input and a valid
\* configuration.
StreamingChatManager_sendMessage_call(text) ==
    /\ program = "streaming"
    /\ Len(messages) <= MaxLog
    /\ ~isProcessing
    /\ validateConfig(config)
    /\ isProcessing' = TRUE
    /\ sendButtonDisabled' = TRUE
    /\ messages' = Append(messages, Message("user", text))
    /\ chatCalls' = {[request |-> StreamRequest(config, messages'),
                      before  |-> messages,
                      cleared |-> FALSE]}
    /\ streamPhase' = "fetch"
    /\ fullContent' = <<>>
    /\ streamLines' = <<>>
    /\ lastStream' = {}
    /\ UNCHANGED <<program, testerVars, configVars, realtimeVars, gatewayVars,
                   chatSends, lastChat>>

\* The end of sendMessage, `finally` included: `how` is "done" when the body
\* ended, "error" when the catch block ran.
StreamEnd(how) ==
    /\ messages' = IF how = "done" /\ fullContent # <<>>
                   THEN Append(messages, Message("assistant", fullContent))
                   ELSE messages
    /\ isProcessing' = FALSE
    /\ sendButtonDisabled' = FALSE
    /\ chatCalls' = {}
    /\ streamPhase' = "idle"
    /\ lastStream' = {[lines    |-> streamLines,
                       ended    |-> how,
                       appended |-> SubSeq(messages', Len(messages) + 1,
                                           Len(messages'))]}
    /\ UNCHANGED <<program, testerVars, configVars, realtimeVars, gatewayVars,
                   chatSends, lastChat, fullContent, streamLines>>

\* fetch settles: a 2xx response opens the reader; a non-2xx status or a
\* rejected fetch throws.
StreamingChatManager_response(kind) ==
    /\ program = "streaming"
    /\ streamPhase = "fetch"
    /\ IF kind = "ok"
       THEN /\ streamPhase' = "reading"
            /\ UNCHANGED <<program, testerVars, configVars, realtimeVars,
                           gatewayVars, messages, isProcessing,
                           sendButtonDisabled, chatCalls, chatSends, lastChat,
                           fullContent, streamLines, lastStream>>
       ELSE StreamEnd("error")

\* `await reader.read()` yields a chunk: the for loop runs over its lines.
StreamingChatManager_read(chunk) ==
    /\ program = "streaming"
    /\ streamPhase = "reading"
    /\ CanFollow(chunk, streamLines)
    /\ fullContent' = FoldChunk(fullContent, chunk)
    /\ streamLines' = streamLines \o chunk
    /\ UNCHANGED <<program, testerVars, configVars, realtimeVars, gatewayVars,
                   messages, isProcessing, sendButtonDisabled, chatCalls,
                   chatSends, lastChat, streamPhase, lastStream>>

\* `await reader.read()` reports the end of the body, or rejects.
StreamingChatManager_read_end(how) ==
    /\ program = "streaming"
    /\ streamPhase = "reading"
    /\ StreamEnd(how)

StreamingNext ==
    \/ \E text \in UserTexts : StreamingChatManager_sendMessage_call(text)
    \/ \E kind \in {"ok", "http", "network"} : StreamingChatManager_response(kind)
    \/ \E chunk \in Chunks(MaxFrames - Len(streamLines)) :
           StreamingChatManager_read(chunk)
    \/ \E how \in {"done", "error"} : StreamingChatManager_read_end(how)

-----------------------------------------------------------------------------
(* src/js/realtime.js: RealtimeGatewayManager.                              *)
(* RealtimeClient comes from the openai-realtime-api package: its connect() *)
(* promise resolves or rejects as the network decides, and the peer may     *)
(* close an open connection at any time.                                    *)

\* A RealtimeClient is "unused" (not created yet), "connecting" (created,
\* connect() not settled), "open", or "closed".
ClientIds == 1 .. MaxClients

UnusedClients == {k \in ClientIds : clients[k] = "unused"}

\* The record of a step: what ran, the status shown when it was called,
\* whether it created a client, whether it threw, and the step before it.
RealtimeStep(op, pre, created) ==
    [op |-> op, pre |-> pre, created |-> created, threw |-> FALSE,
     prev |-> realtimeLast.op]

\* connect() up to `await this.client.connect()`, for a valid configuration:
\* there is no check of the current state before the client is created.
RealtimeGatewayManager_connect_call ==
    /\ program \in RealtimePages
    /\ validateConfig(config)
    /\ UnusedClients # {}
    /\ LET k == CHOOSE i \in UnusedClients : \A j \in UnusedClients : i <= j
       IN  /\ connectionStatus' = "connecting"
           /\ client' = k
           /\ clients' = [clients EXCEPT ![k] = "connecting"]
           /\ connectCalls' = connectCalls \cup {k}
    /\ realtimeLast' = RealtimeStep("connect", connectionStatus, TRUE)
    /\ UNCHANGED <<program, testerVars, configVars, chatVars, gatewayVars,
                   conversationMessages, interrupted, events, recordingVars,
                   isConnected, disconnectCalls>>

\* connect() with an invalid configuration: a message is shown, nothing else.
RealtimeGatewayManager_connect_invalid ==
    /\ program = "realtime"
    /\ ~validateConfig(config)
    /\ realtimeLast' = RealtimeStep("connect", connectionStatus, FALSE)
    /\ UNCHANGED <<program, testerVars, configVars, chatVars, gatewayVars,
                   conversationMessages, interrupted, events, recordingVars,
                   client, clients, isConnected, connectionStatus, connectCalls,
                   disconnectCalls>>

\* client.connect() resolves: the rest of the try block.
RealtimeGatewayManager_connect_resolved(k) ==
    /\ program \in RealtimePages
    /\ k \in connectCalls
    /\ clients[k] = "connecting"
    /\ clients' = [clients EXCEPT ![k] = "open"]
    /\ connectCalls' = connectCalls \ {k}
    /\ isConnected' = TRUE
    /\ connectionStatus' = "connected"
    /\ realtimeLast' = RealtimeStep("connected", connectionStatus, FALSE)
    /\ UNCHANGED <<program, testerVars, configVars, chatVars, gatewayVars,
                   conversationMessages, interrupted, events, recordingVars,
                   client, disconnectCalls>>

\* client.connect() rejects: the catch block.
RealtimeGatewayManager_connect_rejected(k) ==
    /\ program \in RealtimePages
    /\ k \in connectCalls
    /\ clients' = [clients EXCEPT ![k] = "closed"]
    /\ connectCalls' = connectCalls \ {k}
    /\ connectionStatus' = "disconnected"
    /\ realtimeLast' = RealtimeStep("connect_failed", connectionStatus, FALSE)
    /\ UNCHANGED <<program, testerVars, configVars, chatVars, gatewayVars,
                   conversationMessages, interrupted, events, recordingVars,
                   client, isConnected, disconnectCalls>>

\* disconnect() without the reset of isConnected.
DisconnectTail_keepsConnected ==
    /\ UNCHANGED isConnected
    /\ connectionStatus' = "disconnected"

\* The tail of disconnect(), after the `if (this.client)` block.
DisconnectTail ==
    /\ isConnected' = FALSE
    /\ connectionStatus' = "disconnected"

\* mediaRecorder.stop(): a recording recorder goes inactive at once and its
\* 'stop' event is queued; an inactive one is left alone. The stream notes
\* who stopped it, and whether this.client was set at that moment.
Stopped(k, by, hadClient) ==
    IF streams[k].recorder = "recording"
    THEN [streams EXCEPT ![k].recorder = "stopping",
                         ![k].stoppedBy = by,
                         ![k].hadClient = hadClient]
    ELSE streams

\* stopRecording(), as a change of streams.
StopRecording(by, hadClient) ==
    IF mediaRecorder # 0 /\ isRecording
    THEN Stopped(mediaRecorder, by, hadClient)
    ELSE streams

\* The end of disconnect(): `if (this.isRecording) this.stopRecording()`,
\* after this.client has been set to null.
DisconnectCleanup ==
    /\ streams' = StopRecording("disconnect", FALSE)
    /\ disconnectedSince' = TRUE
    /\ UNCHANGED <<isRecording, mediaRecorder, readers, chunks, isPTTActive>>

\* disconnect() with a client, up to `await this.client.disconnect()`.
RealtimeGatewayManager_disconnect_call ==
    /\ program \in RealtimePages
    /\ client # 0
    /\ clients' = [clients EXCEPT ![client] = "closed"]
    /\ disconnectCalls' = disconnectCalls \cup {[pre |-> connectionStatus]}
    /\ UNCHANGED <<program, testerVars, configVars, chatVars, gatewayVars,
                   conversationMessages, interrupted, events, recordingVars,
                   client, isConnected, connectionStatus, connectCalls,
                   realtimeLast>>

\* disconnect() with a client, from the await to the return.
RealtimeGatewayManager_disconnect_return(d) ==
    /\ program \in RealtimePages
    /\ d \in disconnectCalls
    /\ disconnectCalls' = disconnectCalls \ {d}
    /\ client' = 0
    /\ DisconnectTail
    /\ realtimeLast' = RealtimeStep("disconnect", d.pre, FALSE)
    /\ DisconnectCleanup
    /\ UNCHANGED <<program, testerVars, configVars, chatVars, gatewayVars,
                   conversationMessages, interrupted, events,
                   clients, connectCalls>>

\* disconnect() without a client: it runs to its end at once.
RealtimeGatewayManager_disconnect_noClient ==
    /\ program \in RealtimePages
    /\ client = 0
    /\ DisconnectTail
    /\ realtimeLast' = RealtimeStep("disconnect", connectionStatus, FALSE)
    /\ DisconnectCleanup
    /\ UNCHANGED <<program, testerVars, configVars, chatVars, gatewayVars,
                   conversationMessages, interrupted, events,
                   client, clients, connectCalls, disconnectCalls>>

\* The handler setupClientEventListeners registers for 'error': it shows the
\* error and changes nothing else.
RealtimeGatewayManager_on_error(k) ==
    /\ program \in RealtimePages
    /\ clients[k] \in {"connecting", "open"}
    /\ realtimeLast' = RealtimeStep("error", connectionStatus, FALSE)
    /\ UNCHANGED <<program, testerVars, configVars, chatVars, gatewayVars,
                   conversationMessages, interrupted, events, recordingVars,
                   client, clients, isConnected, connectionStatus, connectCalls,
                   disconnectCalls>>

\* The peer closes an open connection: no handler is registered for it.
RealtimeClient_peerClose(k) ==
    /\ program \in RealtimePages
    /\ clients[k] = "open"
    /\ clients' = [clients EXCEPT ![k] = "closed"]
    /\ realtimeLast' = RealtimeStep("peer_close", connectionStatus, FALSE)
    /\ UNCHANGED <<program, testerVars, configVars, chatVars, gatewayVars,
                   conversationMessages, interrupted, events, recordingVars,
                   client, isConnected, connectionStatus, connectCalls,
                   disconnectCalls>>

\* client.sendUserMessageContent of the package: on an open connection it
\* sends the item and then asks for a response; on any other it throws.
RealtimeClient_sendUserMessageContent(k) ==
    IF clients[k] = "open"
    THEN <<"conversation.item.create", "response.create">>
    ELSE <<>>

\* What sendTextMessage puts on the wire for a non-empty input: nothing
\* unless isConnected and client are set; a throw of the client is caught.
TextEmitted ==
    IF ~isConnected \/ client = 0
    THEN <<>>
    ELSE RealtimeClient_sendUserMessageContent(client)

\* sendTextMessage() for a non-empty input.
RealtimeGatewayManager_sendTextMessage ==
    /\ program = "realtime"
    /\ realtimeLast' = RealtimeStep("text", connectionStatus, FALSE)
                        @@ [flag    |-> isConnected,
                            target  |-> IF client = 0 THEN "none"
                                                      ELSE clients[client],
                            emitted |-> TextEmitted]
    /\ UNCHANGED <<program, testerVars, configVars, chatVars, gatewayVars,
                   conversationMessages, interrupted, events, recordingVars,
                   client, clients, isConnected, connectionStatus, connectCalls,
                   disconnectCalls>>

\* A microphone stream: its tracks are "none" (not asked for), "pending"
\* (getUserMedia not settled), "live", "stopped" or "denied"; its MediaRecorder
\* is "none", "recording", "stopping" ('stop' event queued) or "inactive".
StreamIds == 1 .. MaxStreams

NoStream == [tracks |-> "none", recorder |-> "none", stoppedBy |-> "none",
             hadClient |-> FALSE]

UnusedStreams == {k \in StreamIds : streams[k].tracks = "none"}

\* startRecording() up to `await getUserMedia(...)`.
RealtimeGatewayManager_startRecording_call ==
    /\ program = "voice"
    /\ UnusedStreams # {}
    /\ LET k == CHOOSE i \in UnusedStreams : \A j \in UnusedStreams : i <= j
       IN  streams' = [streams EXCEPT ![k].tracks = "pending"]
    /\ disconnectedSince' = FALSE
    /\ realtimeLast' = RealtimeStep("startRecording", connectionStatus, FALSE)
    /\ UNCHANGED <<program, testerVars, configVars, chatVars, gatewayVars,
                   conversationMessages, interrupted, events,
                   client, clients, isConnected, connectionStatus, connectCalls,
                   disconnectCalls, isRecording, mediaRecorder, readers, chunks,
                   isPTTActive>>

\* getUserMedia resolves: the recorder is created over the stream and started.
RealtimeGatewayManager_startRecording_resolved(k) ==
    /\ program \in RecordingPages
    /\ streams[k].tracks = "pending"
    /\ streams' = [streams EXCEPT ![k].tracks = "live",
                                  ![k].recorder = "recording"]
    /\ mediaRecorder' = k
    /\ isRecording' = TRUE
    /\ realtimeLast' = RealtimeStep("recording", connectionStatus, FALSE)
    /\ UNCHANGED <<program, testerVars, configVars, chatVars, gatewayVars,
                   conversationMessages, interrupted, events,
                   client, clients, isConnected, connectionStatus, connectCalls,
                   disconnectCalls, readers, chunks, disconnectedSince,
                   isPTTActive>>

\* getUserMedia rejects: the catch block shows the error.
RealtimeGatewayManager_startRecording_rejected(k) ==
    /\ program \in RecordingPages
    /\ streams[k].tracks = "pending"
    /\ streams' = [streams EXCEPT ![k].tracks = "denied"]
    /\ realtimeLast' = RealtimeStep("recording_failed", connectionStatus, FALSE)
    /\ UNCHANGED <<program, testerVars, configVars, chatVars, gatewayVars,
                   conversationMessages, interrupted, events,
                   client, clients, isConnected, connectionStatus, connectCalls,
                   disconnectCalls, isRecording, mediaRecorder, readers, chunks,
                   disconnectedSince,
                   isPTTActive>>

\* stopRecording() from the stop button.
RealtimeGatewayManager_stopRecording ==
    /\ program = "voice"
    /\ streams' = StopRecording("user", client # 0)
    /\ realtimeLast' = RealtimeStep("stopRecording", connectionStatus, FALSE)
    /\ UNCHANGED <<program, testerVars, configVars, chatVars, gatewayVars,
                   conversationMessages, interrupted, events,
                   client, clients, isConnected, connectionStatus, connectCalls,
                   disconnectCalls, isRecording, mediaRecorder, readers, chunks,
                   disconnectedSince,
                   isPTTActive>>

\* mediaRecorder.onstop of the recorder over stream k: it stops the tracks,
\* clears isRecording and, if this.client is set by now, calls
\* this.client.createResponse().
mediaRecorder_onstop(k) ==
    /\ program \in RecordingPages
    /\ streams[k].recorder = "stopping"
    /\ streams' = [streams EXCEPT ![k].tracks = "stopped",
                                  ![k].recorder = "inactive"]
    /\ isRecording' = FALSE
    /\ realtimeLast' = RealtimeStep("onstop", connectionStatus, FALSE)
                        @@ [createResponse |-> client # 0,
                            stoppedBy      |-> streams[k].stoppedBy,
                            hadClient      |-> streams[k].hadClient]
    /\ UNCHANGED <<program, testerVars, configVars, chatVars, gatewayVars,
                   conversationMessages, interrupted, events,
                   client, clients, isConnected, connectionStatus, connectCalls,
                   disconnectCalls, mediaRecorder, readers, chunks,
                   disconnectedSince,
                   isPTTActive>>

\* sendAudioChunk(blob): unless isConnected and client are set it returns;
\* otherwise it starts a FileReader and returns.
ReadersAfterChunk ==
    IF ~isConnected \/ client = 0 THEN readers ELSE readers + 1

\* mediaRecorder.ondataavailable of the recorder over stream k, with a
\* non-empty chunk: the chunk is handed to sendAudioChunk.
mediaRecorder_ondataavailable(k) ==
    /\ program = "voice"
    /\ streams[k].recorder \in {"recording", "stopping"}
    /\ chunks < MaxChunks
    /\ chunks' = chunks + 1
    /\ readers' = ReadersAfterChunk
    /\ realtimeLast' = RealtimeStep("chunk", connectionStatus, FALSE)
    /\ UNCHANGED <<program, testerVars, configVars, chatVars, gatewayVars,
                   conversationMessages, interrupted, events,
                   client, clients, isConnected, connectionStatus, connectCalls,
                   disconnectCalls, isRecording, mediaRecorder, streams,
                   disconnectedSince,
                   isPTTActive>>

\* reader.onloadend: the encoded chunk is handed to this.client, whatever it
\* is by now; on null the call throws a TypeError.
FileReader_onloadend ==
    /\ program = "voice"
    /\ readers > 0
    /\ readers' = readers - 1
    /\ realtimeLast' = [RealtimeStep("appendInputAudio", connectionStatus, FALSE)
                            EXCEPT !.threw = (client = 0)]
                        @@ [flag   |-> isConnected,
                            target |-> IF client = 0 THEN "none"
                                                     ELSE clients[client]]
    /\ UNCHANGED <<program, testerVars, configVars, chatVars, gatewayVars,
                   conversationMessages, interrupted, events,
                   client, clients, isConnected, connectionStatus, connectCalls,
                   disconnectCalls, isRecording, mediaRecorder, streams, chunks,
                   disconnectedSince,
                   isPTTActive>>

\* addMessage(type, content, id): a new element at the end of the list; id
\* is "" when none is given.
addMessage(msgs, type, content, id) ==
    Append(msgs, [type |-> type, text |-> content, id |-> id])

\* updateOrAddMessage(type, content, id): the first element with that id has
\* its text replaced; without one the message is added.
updateOrAddMessage(msgs, type, content, id) ==
    LET found == {i \in 1 .. Len(msgs) : msgs[i].id = id}
    IN  IF found # {}
        THEN [msgs EXCEPT ![CHOOSE i \in found : \A j \in found : i <= j].text =
                              content]
        ELSE addMessage(msgs, type, content, id)

\* handleDeltaUpdate(delta): a delta that is a non-empty string is added to
\* the text of the last assistant message, or shown as a new one if there is
\* none; any other delta is passed over.
handleDeltaUpdate(msgs, delta) ==
    LET assistant == {i \in 1 .. Len(msgs) : msgs[i].type = "assistant"}
    IN  IF delta.kind # "string" THEN msgs
        ELSE IF assistant # {}
        THEN [msgs EXCEPT ![CHOOSE i \in assistant : \A j \in assistant : i >= j].text =
                              @ \o delta.text]
        ELSE addMessage(msgs, "assistant", delta.text, "")

\* The handler of 'conversation.updated' for an event of an open client:
\* event.item, if there is one, is an assistant item with text; event.delta,
\* if there is one, is a string or an object.
client_on_conversation_updated(k, item, delta) ==
    /\ program = "conversation"
    /\ clients[k] = "open"
    /\ events < MaxEvents
    /\ item.kind # "none" \/ delta.kind # "none"
    /\ events' = events + 1
    /\ conversationMessages' =
           handleDeltaUpdate(
               IF item.kind = "none" THEN conversationMessages
               ELSE updateOrAddMessage(conversationMessages, "assistant",
                                       item.text, item.id),
               delta)
    /\ UNCHANGED <<program, testerVars, configVars, chatVars, gatewayVars,
                   client, clients, isConnected, connectionStatus, connectCalls,
                   disconnectCalls, realtimeLast, recordingVars, interrupted>>

\* The handler of 'conversation.interrupted': it shows 'Response interrupted'
\* and sets nothing else. The model notes the last assistant message shown,
\* if any, as it is at that moment.
client_on_conversation_interrupted(k) ==
    /\ program = "conversation"
    /\ clients[k] = "open"
    /\ events < MaxEvents
    /\ events' = events + 1
    /\ conversationMessages' =
           addMessage(conversationMessages, "system", <<"Response interrupted">>, "")
    /\ LET assistant == {i \in 1 .. Len(conversationMessages) :
                             conversationMessages[i].type = "assistant"}
       IN  interrupted' =
               {[index |-> i, text |-> conversationMessages[i].text] :
                    i \in {i \in assistant : \A j \in assistant : i >= j}}
    /\ UNCHANGED <<program, testerVars, configVars, chatVars, gatewayVars,
                   client, clients, isConnected, connectionStatus, connectCalls,
                   disconnectCalls, realtimeLast, recordingVars>>

\* realtime-direct.js, the 'mousedown' handler of the push-to-talk button:
\* unless the session is connected and no press is active it returns;
\* otherwise it notes the press and calls startRecording(), which runs up to
\* `await getUserMedia(...)`.
pushToTalkBtn_mousedown ==
    /\ program = "pushToTalk"
    /\ isConnected
    /\ ~isPTTActive
    /\ UnusedStreams # {}
    /\ isPTTActive' = TRUE
    /\ LET k == CHOOSE i \in UnusedStreams : \A j \in UnusedStreams : i <= j
       IN  streams' = [streams EXCEPT ![k].tracks = "pending"]
    /\ disconnectedSince' = FALSE
    /\ realtimeLast' = RealtimeStep("mousedown", connectionStatus, FALSE)
    /\ UNCHANGED <<program, testerVars, configVars, chatVars, gatewayVars,
                   conversationMessages, interrupted, events,
                   client, clients, isConnected, connectionStatus, connectCalls,
                   disconnectCalls, isRecording, mediaRecorder, readers, chunks>>

\* realtime-direct.js, the 'mouseup' and 'mouseleave' handlers of the
\* push-to-talk button: unless a press is active they return; otherwise they
\* clear the press and call stopRecording().
pushToTalkBtn_release(event) ==
    /\ program = "pushToTalk"
    /\ isPTTActive
    /\ isPTTActive' = FALSE
    /\ streams' = StopRecording("user", client # 0)
    /\ realtimeLast' = RealtimeStep(event, connectionStatus, FALSE)
    /\ UNCHANGED <<program, testerVars, configVars, chatVars, gatewayVars,
                   conversationMessages, interrupted, events,
                   client, clients, isConnected, connectionStatus, connectCalls,
                   disconnectCalls, isRecording, mediaRecorder, readers, chunks,
                   disconnectedSince>>

RecordingInit ==
    /\ isRecording = FALSE
    /\ mediaRecorder = 0
    /\ streams = [k \in StreamIds |-> NoStream]
    /\ readers = 0
    /\ chunks = 0
    /\ disconnectedSince = FALSE
    /\ isPTTActive = FALSE

RecordingNext ==
    \/ RealtimeGatewayManager_startRecording_call
    \/ \E k \in StreamIds : RealtimeGatewayManager_startRecording_resolved(k)
    \/ \E k \in StreamIds : RealtimeGatewayManager_startRecording_rejected(k)
    \/ RealtimeGatewayManager_stopRecording
    \/ \E k \in StreamIds : mediaRecorder_onstop(k)
    \/ \E k \in StreamIds : mediaRecorder_ondataavailable(k)
    \/ FileReader_onloadend

RealtimeInit ==
    /\ client = 0
    /\ clients = [k \in ClientIds |-> "unused"]
    /\ isConnected = FALSE
    /\ connectionStatus = "disconnected"
    /\ connectCalls = {}
    /\ disconnectCalls = {}
    /\ realtimeLast = [op |-> "none", pre |-> "disconnected", created |-> FALSE,
                       threw |-> FALSE, prev |-> "none"]
    /\ RecordingInit
    /\ conversationMessages = <<>>
    /\ interrupted = {}
    /\ events = 0

RealtimeNext ==
    \/ RealtimeGatewayManager_connect_call
    \/ RealtimeGatewayManager_connect_invalid
    \/ \E k \in ClientIds : RealtimeGatewayManager_connect_resolved(k)
    \/ \E k \in ClientIds : RealtimeGatewayManager_connect_rejected(k)
    \/ RealtimeGatewayManager_disconnect_call
    \/ \E d \in disconnectCalls : RealtimeGatewayManager_disconnect_return(d)
    \/ RealtimeGatewayManager_disconnect_noClient
    \/ \E k \in ClientIds : RealtimeGatewayManager_on_error(k)
    \/ \E k \in ClientIds : RealtimeClient_peerClose(k)
    \/ RealtimeGatewayManager_sendTextMessage
    \/ \E updates \in Configs : saveConfig(updates)

\* The events of the client: an item with the text so far, a string delta,
\* both, or an interruption.
ConversationNext ==
    \/ RealtimeGatewayManager_connect_call
    \/ \E k \in ClientIds : RealtimeGatewayManager_connect_resolved(k)
    \/ RealtimeGatewayManager_disconnect_call
    \/ \E d \in disconnectCalls : RealtimeGatewayManager_disconnect_return(d)
    \/ \E k \in ClientIds,
          item \in {[kind |-> "none", id |-> "", text |-> <<>>],
                    [kind |-> "assistant", id |-> "item1", text |-> <<"He">>],
                    [kind |-> "assistant", id |-> "item1", text |-> <<"He", "llo">>]},
          delta \in {[kind |-> "none", text |-> <<>>],
                     [kind |-> "string", text |-> <<"llo">>],
                     [kind |-> "object", text |-> <<"llo">>]} :
           client_on_conversation_updated(k, item, delta)
    \/ \E k \in ClientIds : client_on_conversation_interrupted(k)

\* The voice page under a valid configuration, recording included.
VoiceNext ==
    \/ RealtimeGatewayManager_connect_call
    \/ \E k \in ClientIds : RealtimeGatewayManager_connect_resolved(k)
    \/ \E k \in ClientIds : RealtimeGatewayManager_connect_rejected(k)
    \/ RealtimeGatewayManager_disconnect_call
    \/ \E d \in disconnectCalls : RealtimeGatewayManager_disconnect_return(d)
    \/ RealtimeGatewayManager_disconnect_noClient
    \/ \E k \in ClientIds : RealtimeGatewayManager_on_error(k)
    \/ \E k \in ClientIds : RealtimeClient_peerClose(k)
    \/ RecordingNext

\* The direct voice page used with the push-to-talk button alone.
PushToTalkNext ==
    \/ RealtimeGatewayManager_connect_call
    \/ \E k \in ClientIds : RealtimeGatewayManager_connect_resolved(k)
    \/ \E k \in ClientIds : RealtimeGatewayManager_connect_rejected(k)
    \/ RealtimeGatewayManager_disconnect_call
    \/ \E d \in disconnectCalls : RealtimeGatewayManager_disconnect_return(d)
    \/ RealtimeGatewayManager_disconnect_noClient
    \/ pushToTalkBtn_mousedown
    \/ \E event \in {"mouseup", "mouseleave"} : pushToTalkBtn_release(event)
    \/ \E k \in StreamIds : RealtimeGatewayManager_startRecording_resolved(k)
    \/ \E k \in StreamIds : RealtimeGatewayManager_startRecording_rejected(k)
    \/ \E k \in StreamIds : mediaRecorder_onstop(k)

-----------------------------------------------------------------------------
(* test-gateway-node.js: GatewayTester.                                     *)
(* WebSocket comes from the ws package: a socket is CONNECTING, OPEN,       *)
(* CLOSING or CLOSED; a failed handshake or an aborted one emits 'error'    *)
(* and then 'close'; send() throws on a CONNECTING socket, writes on an     *)
(* OPEN one and drops the data on a CLOSING or CLOSED one.                  *)

SocketIds == 1 .. MaxSockets

\* A socket: its readyState, what it was created with, and whether it has
\* emitted 'open' and 'error'.
NoSocket == [readyState |-> "UNUSED", url |-> <<>>, protocols |-> <<>>,
             opened |-> FALSE, errored |-> FALSE]

UnusedSockets == {k \in SocketIds : sockets[k].readyState = "UNUSED"}

GatewayUrl(cfg) ==
    <<"wss://gateway.ai.cloudflare.com/v1/", cfg.accountId, "/", cfg.gatewayId,
      "/openai?model=", cfg.model>>

\* connect() with the insecure-key entry put back.
Protocols_withInsecureKey(cfg) ==
    <<<<"realtime">>, <<"openai-insecure-api-key.", cfg.openaiKey>>,
      <<"openai-beta.realtime-v1">>>>
    \o (IF cfg.cfAuthToken # ""
        THEN <<<<"cf-aig-authorization.", cfg.cfAuthToken>>>>
        ELSE <<>>)

\* Whether the caller has selected the insecure subprotocol: the entry is a
\* commented-out line of the source, so it is not selected.
InsecureSubprotocolSelected == FALSE

\* The subprotocol list connect() builds: the insecure-key entry is commented
\* out in the source.
Protocols(cfg) ==
    <<<<"realtime">>, <<"openai-beta.realtime-v1">>>>
    \o (IF cfg.cfAuthToken # ""
        THEN <<<<"cf-aig-authorization.", cfg.cfAuthToken>>>>
        ELSE <<>>)

\* What the tester holds: no handle, or a handle in some readyState.
GatewayState ==
    IF ws = 0 THEN "disconnected" ELSE sockets[ws].readyState

GatewayStep(op, pre) ==
    [op |-> op, pre |-> pre, threw |-> FALSE]

\* connect(): builds the URL and the subprotocols, creates the socket and
\* returns a promise.
GatewayTester_connect ==
    /\ program \in GatewayPrograms
    /\ UnusedSockets # {}
    /\ LET k == CHOOSE i \in UnusedSockets : \A j \in UnusedSockets : i <= j
       IN  /\ ws' = k
           /\ sockets' = [sockets EXCEPT ![k] =
                  [readyState |-> "CONNECTING",
                   url        |-> GatewayUrl(gatewayConfig),
                   protocols  |-> Protocols(gatewayConfig),
                   opened     |-> FALSE,
                   errored    |-> FALSE]]
           /\ promises' = [promises EXCEPT ![k] = "pending"]
    /\ gatewayLast' = GatewayStep("connect", GatewayState)
    /\ UNCHANGED <<program, testerVars, configVars, chatVars, realtimeVars,
                   gatewayConfig, sent, timers, lineHandler, gatewayLines>>

\* resolve and reject settle a promise once.
Settle(k, how) ==
    IF promises[k] = "pending" THEN [promises EXCEPT ![k] = how] ELSE promises

\* The 'open' handler: it starts the one-second timer and resolves.
GatewayTester_on_open(k) ==
    /\ program \in GatewayPrograms
    /\ sockets[k].readyState = "CONNECTING"
    /\ sockets' = [sockets EXCEPT ![k].readyState = "OPEN", ![k].opened = TRUE]
    /\ timers' = timers \cup {k}
    /\ promises' = Settle(k, "resolved")
    /\ gatewayLast' = GatewayStep("open", GatewayState)
    /\ UNCHANGED <<program, testerVars, configVars, chatVars, realtimeVars,
                   gatewayConfig, ws, sent, lineHandler, gatewayLines>>

\* this.ws.send(...) throws when this.ws is null or still CONNECTING.
SendThrows ==
    \/ ws = 0
    \/ sockets[ws].readyState = "CONNECTING"

\* this.ws.send(...) that writes nothing.
SendAll_dropped(msgs) == sent

\* this.ws.send(m) for each m of msgs in turn: written on an OPEN socket,
\* dropped on a CLOSING or CLOSED one; a throw ends the handler.
SendAll(msgs) ==
    IF ws # 0 /\ sockets[ws].readyState = "OPEN"
    THEN [sent EXCEPT ![ws] = @ \o msgs]
    ELSE sent

\* What a step put on each socket.
Emitted(k) == SubSeq(sent'[k], Len(sent[k]) + 1, Len(sent'[k]))

\* The callback of the timer the 'open' handler of socket k started: it sends
\* the test message on whatever this.ws is by then.
GatewayTester_open_timer(k) ==
    /\ program \in GatewayPrograms
    /\ k \in timers
    /\ timers' = timers \ {k}
    /\ sent' = SendAll(<<"response.create">>)
    /\ gatewayLast' = [GatewayStep("timer", GatewayState) EXCEPT !.threw = SendThrows]
    /\ UNCHANGED <<program, testerVars, configVars, chatVars, realtimeVars,
                   gatewayConfig, ws, sockets, promises, lineHandler,
                   gatewayLines>>

\* The 'error' handler: it rejects the promise and leaves this.ws alone.
GatewayTester_on_error_silent(k) ==
    /\ program \in GatewayPrograms
    /\ \/ sockets[k].readyState \in {"CONNECTING", "OPEN"}
       \/ /\ sockets[k].readyState = "CLOSING"
          /\ ~sockets[k].opened
          /\ ~sockets[k].errored
    /\ sockets' = [sockets EXCEPT ![k].readyState = "CLOSING", ![k].errored = TRUE]
    /\ gatewayLast' = GatewayStep("error", GatewayState)
    /\ UNCHANGED <<program, testerVars, configVars, chatVars, realtimeVars,
                   gatewayConfig, ws, promises, sent, timers, lineHandler,
                   gatewayLines>>

GatewayTester_on_error(k) ==
    /\ program \in GatewayPrograms
    /\ \/ sockets[k].readyState \in {"CONNECTING", "OPEN"}
       \/ /\ sockets[k].readyState = "CLOSING"
          /\ ~sockets[k].opened
          /\ ~sockets[k].errored
    /\ sockets' = [sockets EXCEPT ![k].readyState = "CLOSING", ![k].errored = TRUE]
    /\ promises' = Settle(k, "rejected")
    /\ gatewayLast' = GatewayStep("error", GatewayState)
    /\ UNCHANGED <<program, testerVars, configVars, chatVars, realtimeVars,
                   gatewayConfig, ws, sent, timers, lineHandler, gatewayLines>>

\* The close codes tried: five of the table, and 1005 (no status received),
\* which the table does not list.
CloseCodes == {1000, 1002, 1005, 1006, 4001, 4003}

\* The closeCodes table of the 'close' handler.
closeCodes ==
    [code \in {1000, 1001, 1002, 1003, 1006, 1007, 1008, 1009, 1011,
               4000, 4001, 4002, 4003, 4004, 4008} |->
        CASE code = 1000 -> "Normal closure"
          [] code = 1001 -> "Going away"
          [] code = 1002 -> "Protocol error"
          [] code = 1003 -> "Unsupported data"
          [] code = 1006 -> "Abnormal closure"
          [] code = 1007 -> "Invalid frame payload data"
          [] code = 1008 -> "Policy violation"
          [] code = 1009 -> "Message too big"
          [] code = 1011 -> "Internal server error"
          [] code = 4000 -> "Bad request"
          [] code = 4001 -> "Unauthorized"
          [] code = 4002 -> "Payment required"
          [] code = 4003 -> "Forbidden"
          [] code = 4004 -> "Not found"
          [] code = 4008 -> "Request timeout"]

\* The 'Close code meaning' line the handler logs, if any.
CloseMeaning(code) ==
    IF code \in DOMAIN closeCodes THEN <<closeCodes[code]>> ELSE <<>>

\* The handler's guidance without the 4003 case.
CloseWarning_only4001(code) ==
    IF code = 4001 THEN <<"Authentication failed. Check your API keys and Gateway configuration.">>
    ELSE IF code = 1002 THEN <<"Protocol error. The subprotocol authentication may not be supported.">>
    ELSE <<>>

\* The guidance the handler logs as a warning, if any.
CloseWarning(code) ==
    IF code = 4001 \/ code = 4003 THEN <<"Authentication failed. Check your API keys and Gateway configuration.">>
    ELSE IF code = 1002 THEN <<"Protocol error. The subprotocol authentication may not be supported.">>
    ELSE <<>>

\* The 'close' handler: it logs the close code, its meaning and the guidance,
\* and leaves this.ws and the promise alone.
GatewayTester_on_close(k, code) ==
    /\ program \in GatewayPrograms
    /\ \/ sockets[k].readyState = "OPEN"
       \/ /\ sockets[k].readyState = "CLOSING"
          /\ sockets[k].opened \/ sockets[k].errored
    /\ sockets' = [sockets EXCEPT ![k].readyState = "CLOSED"]
    /\ gatewayLast' = GatewayStep("close", GatewayState)
                       @@ [code    |-> code,
                           meaning |-> CloseMeaning(code),
                           warning |-> CloseWarning(code)]
    /\ UNCHANGED <<program, testerVars, configVars, chatVars, realtimeVars,
                   gatewayConfig, ws, promises, sent, timers, lineHandler,
                   gatewayLines>>

\* ws.close() of the ws package: nothing on a closed socket, else CLOSING.
Close(k) ==
    IF sockets[k].readyState = "CLOSED"
    THEN sockets
    ELSE [sockets EXCEPT ![k].readyState = "CLOSING"]

\* The frames a socket delivers: two of types the handler has a case for
\* (the text delta carries the text "Hi"), one of a type it has no case for,
\* and one whose text is not JSON.
InboundFrames ==
    {"session.created", "response.text.delta", "unknown.event", "undecodable"}

\* What the 'message' handler logs for a frame: JSON.parse throws on text
\* that is not JSON and the catch block logs the failure; otherwise the type
\* is logged, and then what the case of the switch logs, if there is a case.
MessageLog(frame) ==
    IF frame = "undecodable" THEN <<<<"Failed to parse message">>>>
    ELSE <<<<"Message type: ", frame>>>>
         \o (IF frame = "session.created"
             THEN <<<<"Session created successfully">>>>
             ELSE IF frame = "response.text.delta"
             THEN <<<<"stdout: ", "Hi">>>>
             ELSE <<>>)

\* The 'message' handler with a frame it cannot use ending the connection.
GatewayTester_on_message_fatal(k, frame) ==
    /\ program = "inbound"
    /\ \/ sockets[k].readyState = "OPEN"
       \/ sockets[k].readyState = "CLOSING" /\ sockets[k].opened
    /\ sockets' = IF frame \in {"unknown.event", "undecodable"}
                  THEN Close(k) ELSE sockets
    /\ gatewayLast' = GatewayStep("message", GatewayState)
                       @@ [socket     |-> k,
                           frame      |-> frame,
                           log        |-> MessageLog(frame),
                           readyState |-> sockets[k].readyState,
                           after      |-> IF gatewayLast.op = "message"
                                          THEN gatewayLast.frame ELSE "none"]
    /\ UNCHANGED <<program, testerVars, configVars, chatVars, realtimeVars,
                   gatewayConfig, ws, promises, sent, timers, lineHandler,
                   gatewayLines>>

\* The 'message' handler on a frame of socket k: it parses and logs, and
\* touches neither this.ws nor the socket. The record of the step notes the
\* frame handled just before, if the step before was a frame too.
GatewayTester_on_message(k, frame) ==
    /\ program = "inbound"
    /\ \/ sockets[k].readyState = "OPEN"
       \/ sockets[k].readyState = "CLOSING" /\ sockets[k].opened
    /\ gatewayLast' = GatewayStep("message", GatewayState)
                       @@ [socket     |-> k,
                           frame      |-> frame,
                           log        |-> MessageLog(frame),
                           readyState |-> sockets[k].readyState,
                           after      |-> IF gatewayLast.op = "message"
                                          THEN gatewayLast.frame ELSE "none"]
    /\ UNCHANGED <<program, testerVars, configVars, chatVars, realtimeVars,
                   gatewayConfig, ws, sockets, promises, sent, timers,
                   lineHandler, gatewayLines>>

\* disconnect()
GatewayTester_disconnect ==
    /\ program \in GatewayPrograms
    /\ IF ws # 0
       THEN /\ sockets' = Close(ws)
            /\ ws' = 0
       ELSE UNCHANGED <<sockets, ws>>
    /\ gatewayLast' = GatewayStep("disconnect", GatewayState)
    /\ UNCHANGED <<program, testerVars, configVars, chatVars, realtimeVars,
                   gatewayConfig, promises, sent, timers, lineHandler,
                   gatewayLines>>

\* startInteractive(): it installs the line handler if the socket is open,
\* and only reports 'Not connected' otherwise.
GatewayTester_startInteractive ==
    /\ program = "gateway"
    /\ ~lineHandler
    /\ lineHandler' = (ws # 0 /\ sockets[ws].readyState = "OPEN")
    /\ gatewayLast' = GatewayStep("startInteractive", GatewayState)
    /\ UNCHANGED <<program, testerVars, configVars, chatVars, realtimeVars,
                   gatewayConfig, ws, sockets, promises, sent, timers,
                   gatewayLines>>

\* The line handler on an input line: `msgs` is what the branch sends.
GatewayLine(input, msgs) ==
    /\ program = "gateway"
    /\ lineHandler
    /\ gatewayLines < MaxLines
    /\ gatewayLines' = gatewayLines + 1
    /\ sent' = SendAll(msgs)
    /\ gatewayLast' = [GatewayStep("line", GatewayState) EXCEPT !.threw = SendThrows]
                       @@ [input   |-> input,
                           emitted |-> [k \in SocketIds |-> Emitted(k)]]
    /\ UNCHANGED <<program, testerVars, configVars, chatVars, realtimeVars,
                   gatewayConfig, ws, sockets, promises, timers, lineHandler>>

\* A line of text, with or without the /text prefix.
GatewayTester_line_text ==
    GatewayLine("text", <<"conversation.item.create", "response.create">>)

\* A /json line holding valid JSON: it is sent as it is.
GatewayTester_line_json ==
    GatewayLine("json", <<"custom">>)

GatewayInit ==
    /\ gatewayConfig \in
           [accountId : {"acc"}, gatewayId : {"gw"},
            openaiKey : Keys,
            cfAuthToken : IF program = "gateway" THEN Tokens ELSE {""},
            model : {"gpt-4o-mini"}]
    /\ ws = 0
    /\ sockets = [k \in SocketIds |-> NoSocket]
    /\ promises = [k \in SocketIds |-> "none"]
    /\ gatewayLast = [op |-> "none", pre |-> "disconnected", threw |-> FALSE]
    /\ sent = [k \in SocketIds |-> <<>>]
    /\ timers = {}
    /\ lineHandler = FALSE
    /\ gatewayLines = 0

GatewayNext ==
    \/ GatewayTester_connect
    \/ \E k \in SocketIds : GatewayTester_on_open(k)
    \/ \E k \in SocketIds : GatewayTester_open_timer(k)
    \/ \E k \in SocketIds : GatewayTester_on_error(k)
    \/ \E k \in SocketIds, code \in CloseCodes : GatewayTester_on_close(k, code)
    \/ GatewayTester_disconnect
    \/ GatewayTester_startInteractive
    \/ GatewayTester_line_text
    \/ GatewayTester_line_json

\* The gateway tester with frames arriving and no line entered.
InboundNext ==
    \/ GatewayTester_connect
    \/ \E k \in SocketIds : GatewayTester_on_open(k)
    \/ \E k \in SocketIds : GatewayTester_open_timer(k)
    \/ \E k \in SocketIds, frame \in InboundFrames :
           GatewayTester_on_message(k, frame)
    \/ \E k \in SocketIds : GatewayTester_on_error(k)
    \/ \E k \in SocketIds, code \in CloseCodes : GatewayTester_on_close(k, code)
    \/ GatewayTester_disconnect

-----------------------------------------------------------------------------

Init ==
    /\ program \in Programs
    /\ TesterInit
    /\ ConfigInit
    /\ ChatInit
    /\ RealtimeInit
    /\ GatewayInit

Next ==
    \/ TesterNext
    \/ ConfigNext
    \/ ChatNext
    \/ StreamingNext
    \/ RealtimeNext
    \/ RecordingNext
    \/ GatewayNext
    \/ InboundNext
    \/ runTests_call
    \/ \E kind \in Outcomes : runTests_settle(kind)
    \/ ConversationNext
    \/ PushToTalkNext

Spec == Init /\ [][Next]_vars

TesterStart == Init /\ program = "tester"
ConfigStart == Init /\ program = "config"
ChatStart   == Init /\ program = "chat"
StreamingStart == Init /\ program = "streaming"
RealtimeStart == Init /\ program = "realtime"
GatewayStart == Init /\ program = "gateway"
SessionsStart == Init /\ program \in {"realtime", "gateway"}
VoiceStart == Init /\ program = "voice"
LogsStart == Init /\ program \in {"tester", "chat"}
TestsStart == Init /\ program = "tests"
InboundStart == Init /\ program = "inbound"
ConversationStart == Init /\ program = "conversation"
PushToTalkStart == Init /\ program = "pushToTalk"
ProcessingStart == Init /\ program \in {"chat", "streaming"}
ValidationStart == Init /\ program \in {"chat", "realtime"}

SpecTester == TesterStart /\ [][TesterNext]_vars
SpecConfig == ConfigStart /\ [][ConfigNext]_vars
SpecChat   == ChatStart /\ [][ChatNext]_vars
SpecStreaming == StreamingStart /\ [][StreamingNext]_vars
SpecRealtime == RealtimeStart /\ [][RealtimeNext]_vars
SpecGateway == GatewayStart /\ [][GatewayNext]_vars
SpecSessions == SessionsStart /\ [][RealtimeNext \/ GatewayNext]_vars
SpecVoice == VoiceStart /\ [][VoiceNext]_vars

SpecConversation == ConversationStart /\ [][ConversationNext]_vars

\* The /test command of the tester: one run of runTests.
SpecTests ==
    TestsStart /\ [][runTests_call \/ \E kind \in Outcomes : runTests_settle(kind)]_vars

SpecInbound == InboundStart /\ [][InboundNext]_vars

\* The push-to-talk button. What the page has started is carried through:
\* getUserMedia settles one way or the other, and the 'stop' event a
\* recorder has queued is delivered.
SpecPushToTalk ==
    /\ PushToTalkStart
    /\ [][PushToTalkNext]_vars
    /\ WF_vars(\E k \in StreamIds :
                   \/ RealtimeGatewayManager_startRecording_resolved(k)
                   \/ RealtimeGatewayManager_startRecording_rejected(k))
    /\ WF_vars(\E k \in StreamIds : mediaRecorder_onstop(k))

\* The browser text chat in both its forms, under each configuration, which
\* is not saved anew during the run. Every request settles: fetch resolves or
\* rejects, and the body of a streamed response ends or fails.
SpecProcessing ==
    /\ ProcessingStart
    /\ [][\/ \E text \in UserTexts : ChatManager_sendMessage_call(text)
          \/ \E c \in chatCalls, kind \in Outcomes, reply \in Replies :
                 ChatManager_sendMessage_settle(c, kind, reply)
          \/ clearChat
          \/ ChatManager_sendMessage_invalid
          \/ StreamingNext]_vars
    /\ WF_vars(\E c \in chatCalls, kind \in Outcomes, reply \in Replies :
                   ChatManager_sendMessage_settle(c, kind, reply))
    /\ WF_vars(\E kind \in {"ok", "http", "network"} :
                   StreamingChatManager_response(kind))
    /\ WF_vars(\E how \in {"done", "error"} : StreamingChatManager_read_end(how))

\* The two pages that validate the configuration before they use it.
SpecValidation == ValidationStart /\ [][ChatNext \/ RealtimeNext]_vars

\* The two programs that keep a conversation log over the HTTP API.
SpecLogs == LogsStart /\ [][TesterNext \/ ChatNext]_vars

-----------------------------------------------------------------------------
(* The claims *)

C2_BrowserRollback ==
    \A s \in lastChat :
        (s.kind # "ok" /\ ~s.cleared) => s.grew = 0

\* C3: after a failed chat-completion request, sendMessage does not complete
\* normally: its caller sees an error.
C3_FailureSurfaced ==
    \A s \in lastSend :
        Failed(s.kind) => s.result.completion = "threw"

\* C4: a connect() called while the session is connecting or connected
\* creates no further underlying connection.
C4_ConnectIsNoOpWhenBusy ==
    (realtimeLast.op = "connect"
        /\ realtimeLast.pre \in {"connecting", "connected"})
    => ~realtimeLast.created

\* C5: after the connection is closed by the peer or reports an error while
\* the session is connected, the session is no longer marked connected.
C5_DisconnectedAfterCloseOrError ==
    (realtimeLast.op \in {"peer_close", "error"}
        /\ realtimeLast.pre = "connected")
    => ~isConnected

\* C6: whatever the state disconnect() is called in, the session is
\* disconnected right after it returns, and it raises no error: so also for a
\* second disconnect() in a row. Both for RealtimeGatewayManager and for
\* GatewayTester.
C6_DisconnectLeavesDisconnected ==
    /\ realtimeLast.op = "disconnect" =>
           /\ ~isConnected
           /\ client = 0
           /\ connectionStatus = "disconnected"
           /\ ~realtimeLast.threw
    /\ gatewayLast.op = "disconnect" =>
           /\ ws = 0
           /\ ~gatewayLast.threw

\* disconnect() has returned twice in a row, the second time from a session
\* that was already disconnected.
C6_Witness ==
    /\ realtimeLast.op = "disconnect"
    /\ realtimeLast.prev = "disconnect"
    /\ realtimeLast.pre = "disconnected"

\* C7: after disconnect() has completed, no client the session created is
\* still connecting or open.
C7_NoConnectionLeftOpen ==
    realtimeLast.op = "disconnect" =>
        \A k \in ClientIds : clients[k] \notin {"connecting", "open"}

C9_AuthorizationOnEveryPost ==
    \A c \in testerCalls \cup chatCalls :
        c.request.key # "" =>
            <<"Authorization", Bearer(c.request.key)>> \in c.request.headers

\* C10: getHeaders always has Content-Type, has 'Authorization: Bearer
\* <openaiKey>' if and only if openaiKey is non-empty, and has
\* 'cf-aig-authorization' if and only if useAuthGateway is on and cfAuthToken
\* is non-empty.
C10_getHeaders ==
    \A r \in configResult :
        r.fn = "getHeaders" =>
            LET h     == r.result.value
                names == {x[1] : x \in h}
            IN  /\ ~r.result.threw
                /\ "Content-Type" \in names
                /\ "Authorization" \in names <=> r.cfg.openaiKey # ""
                /\ r.cfg.openaiKey # "" =>
                       <<"Authorization", Bearer(r.cfg.openaiKey)>> \in h
                /\ "cf-aig-authorization" \in names
                       <=> (r.cfg.useAuthGateway /\ r.cfg.cfAuthToken # "")

\* getHeaders called with a gateway token configured and gateway
\* authentication switched off.
C10_Witness ==
    \E r \in configResult :
        /\ r.fn = "getHeaders"
        /\ r.cfg.cfAuthToken # ""
        /\ ~r.cfg.useAuthGateway
        /\ r.cfg.openaiKey # ""

\* C11: getCloudflareBaseUrl and getWebSocketUrl throw, and return no URL,
\* whenever accountId or gatewayId is empty; when both are non-empty they
\* return the https:// (resp. wss://) gateway URL whose path holds exactly that
\* accountId and that gatewayId.
C11_UrlsNeedAccountAndGateway ==
    \A r \in configResult :
        r.fn \in {"getCloudflareBaseUrl", "getWebSocketUrl"} =>
            IF r.cfg.accountId = "" \/ r.cfg.gatewayId = ""
            THEN r.result.threw
            ELSE /\ ~r.result.threw
                 /\ r.result.value =
                        <<(IF r.fn = "getWebSocketUrl"
                           THEN "wss://gateway.ai.cloudflare.com/v1/"
                           ELSE "https://gateway.ai.cloudflare.com/v1/"),
                          r.cfg.accountId, "/", r.cfg.gatewayId,
                          (IF r.fn = "getWebSocketUrl" THEN "/openai/realtime"
                                                       ELSE "/openai")>>

\* getWebSocketUrl called with an account id and no gateway id.
C11_Witness ==
    \E r \in configResult :
        /\ r.fn = "getWebSocketUrl"
        /\ r.cfg.accountId # ""
        /\ r.cfg.gatewayId = ""

\* C12: on every realtime connection the first outbound message is the
\* session-configuration message, session.update; no response.create,
\* conversation.item.create or other message is written before it.
C12_SessionUpdateFirst ==
    \A k \in SocketIds :
        sent[k] # <<>> => sent[k][1] = "session.update"

\* C13: when a socket has closed without ever having opened, the promise its
\* connect() returned is rejected: it is neither resolved nor still pending.
\* A promise is resolved only for a socket that opened.
C13_ClosedBeforeOpenRejects ==
    \A k \in SocketIds :
        /\ (sockets[k].readyState = "CLOSED" /\ ~sockets[k].opened)
               => promises[k] = "rejected"
        /\ promises[k] = "resolved" => sockets[k].opened

\* A socket that closed before it opened.
C13_Witness ==
    \E k \in SocketIds :
        /\ sockets[k].readyState = "CLOSED"
        /\ ~sockets[k].opened

C17_CloseCodeClassification ==
    gatewayLast.op = "close" =>
        LET code == gatewayLast.code
            auth == <<"Authentication failed. Check your API keys and Gateway configuration.">>
            prot == <<"Protocol error. The subprotocol authentication may not be supported.">>
        IN  /\ code \in {4001, 4003} => gatewayLast.warning = auth
            /\ code = 1002 => gatewayLast.warning = prot
            /\ code = 1006 => /\ gatewayLast.meaning = <<"Abnormal closure">>
                              /\ gatewayLast.warning = <<>>
            /\ code = 1000 => /\ gatewayLast.meaning = <<"Normal closure">>
                              /\ gatewayLast.warning = <<>>
            /\ code \notin DOMAIN closeCodes =>
                   /\ gatewayLast.meaning = <<>>
                   /\ gatewayLast.warning = <<>>
            /\ ~gatewayLast.threw

\* The socket was closed with code 4003.
C17_Witness ==
    /\ gatewayLast.op = "close"
    /\ gatewayLast.code = 4003

\* C15: an encoded audio chunk is handed to the connection (appendInputAudio)
\* only while the session is marked connected and this.client is an open
\* client, whatever the interleaving of chunk delivery, chunk encoding and
\* disconnect().
C15_AudioOnlyWhileConnected ==
    realtimeLast.op = "appendInputAudio" =>
        /\ realtimeLast.flag
        /\ realtimeLast.target = "open"
        /\ ~realtimeLast.threw

\* C16: once disconnect() has returned, and until startRecording() is called
\* again, no microphone stream has live tracks, except one whose recorder has
\* been stopped and whose 'stop' event is still to be delivered.
C16_NoLiveTracksAfterDisconnect ==
    disconnectedSince =>
        \A k \in StreamIds :
            streams[k].tracks = "live" => streams[k].recorder = "stopping"

\* C18: a streamed response appends an assistant message to the log only if
\* the line 'data: [DONE]' was among the lines read; a body that ends without
\* it appends nothing.
C18_AppendOnlyAfterDone ==
    \A r \in lastStream :
        r.appended # <<>> =>
            \E i \in 1 .. Len(r.lines) : r.lines[i] = <<"done">>

\* C19: when the server sends well-formed delta frames with contents c1..cn
\* (n >= 1) and then 'data: [DONE]', and the body ends, exactly one assistant
\* message is appended and its content is c1 + ... + cn in arrival order,
\* however the body is cut into chunks.
C19_ConcatenationOfDeltas ==
    \A r \in lastStream :
        LET RECURSIVE Frames(_)
            \* the frames as sent: a cut line is put together again
            Frames(l) ==
                IF l = <<>> THEN <<>>
                ELSE IF l[1][1] = "head" /\ Len(l) >= 2
                THEN <<<<"delta", l[1][2]>>>> \o Frames(SubSeq(l, 3, Len(l)))
                ELSE <<l[1]>> \o Frames(Tail(l))
            RECURSIVE Concat(_)
            Concat(f) ==
                IF f = <<>> THEN <<>>
                ELSE (IF f[1][1] = "delta" THEN f[1][2] ELSE <<>>) \o Concat(Tail(f))
            sentFrames == Frames(r.lines)
            n == Len(sentFrames) - 1
        IN  (/\ r.ended = "done"
             /\ n >= 1
             /\ sentFrames[n + 1] = <<"done">>
             /\ \A i \in 1 .. n : sentFrames[i][1] = "delta")
            => r.appended = <<Message("assistant", Concat(sentFrames))>>

\* C20: a malformed 'data:' line does not end the reading: when the body has
\* ended, the content is the concatenation, in order, of the contents of all
\* well-formed delta lines read, those before and those after a malformed line
\* alike, and it is appended as one assistant message whenever it is not empty.
C20_MalformedLineSkipped ==
    \A r \in lastStream :
        LET RECURSIVE Expected(_)
            Expected(l) ==
                IF l = <<>> THEN <<>>
                ELSE (IF l[1][1] = "delta" THEN l[1][2] ELSE <<>>)
                     \o Expected(Tail(l))
            content == Expected(r.lines)
        IN  r.ended = "done" =>
                r.appended = IF content = <<>>
                             THEN <<>>
                             ELSE <<Message("assistant", content)>>

\* A body with a malformed line between two well-formed deltas has ended, and
\* its message was appended.
C20_Witness ==
    \E r \in lastStream :
        /\ r.ended = "done"
        /\ Len(r.lines) = 3
        /\ r.lines[1][1] = "delta"
        /\ r.lines[2] = <<"bad">>
        /\ r.lines[3][1] = "delta"
        /\ r.appended # <<>>

\* C22: when a non-streaming chat request succeeds with a usable first choice,
\* that choice's message is in the log right after the user message of the
\* call, as the newest message, and the tester's sendMessage returns its text.
C22_ReplyFollowsItsUserMessage ==
    /\ \A s \in lastSend :
           s.kind = "ok" =>
               /\ s.follows
               /\ s.result.completion = "returned"
               /\ s.result.value \in Replies
    /\ \A s \in lastChat : s.kind = "ok" => s.follows

\* C23: the request a send issues carries the whole log, in the order of the
\* log, with the user message of that send last; and the log itself changes
\* only at its end (one message appended, one popped) or by being reset.
C23_RequestCarriesTheLogInOrder ==
    [][/\ \A c \in testerCalls' :
              c.id \notin {d.id : d \in testerCalls} =>
                  LET m == c.request.messages
                  IN  /\ m = conversationHistory'
                      /\ m # <<>>
                      /\ m[Len(m)].role = "user"
                      /\ conversationHistory' =
                             Append(conversationHistory, m[Len(m)])
       /\ \A c \in (IF chatCalls = {} THEN chatCalls' ELSE {}) :
              LET m == c.request.messages
              IN  /\ m = messages'
                  /\ m # <<>>
                  /\ m[Len(m)].role = "user"
                  /\ messages' = Append(messages, m[Len(m)])
       /\ conversationHistory' # conversationHistory =>
              \/ Pop(conversationHistory') = conversationHistory
              \/ conversationHistory' = Pop(conversationHistory)
              \/ conversationHistory' \in
                     {<<Message("system", DefaultSystemPrompt)>>,
                      <<Message("system", OtherSystemPrompt)>>}
       /\ messages' # messages =>
              \/ Pop(messages') = messages
              \/ messages' = <<>>]_vars

\* The second request of a conversation is in flight: it carries the system
\* prompt, the first exchange and the new user message.
C23_Witness ==
    \E c \in testerCalls :
        /\ Len(c.request.messages) = 4
        /\ c.request.messages[1].role = "system"
        /\ c.request.messages[2].role = "user"
        /\ c.request.messages[3].role = "assistant"
        /\ c.request.messages[4].role = "user"

\* C24: at most one chat-completion request is in flight per conversation
\* log, in the Node tester and in the browser chat.
C24_OneRequestInFlight ==
    /\ Cardinality(testerCalls) <= 1
    /\ Cardinality(chatCalls) <= 1

\* C29: when a request of the tester fails, the history after the call is the
\* history before the settling without the user message of the failed call:
\* that message is gone and every other message is kept in its order. So also
\* when another send was in flight at the same time.
C29_RollbackRemovesOwnMessage ==
    \A s \in lastSend :
        (Failed(s.kind) /\ s.overlapped /\ ~s.reset) => s.ownRemoved

\* C30: in interactive mode conversationHistory is never empty and its first
\* message has the role 'system'.
C30_SystemMessageFirst ==
    interactive =>
        /\ conversationHistory # <<>>
        /\ conversationHistory[1].role = "system"

\* C28: in every state reached by interleaving connect(), disconnect() and the
\* settling of client.connect(), a session marked connected holds a client.
C28_ConnectedImpliesClient ==
    isConnected => client # 0

\* C21: a frame is handled when it arrives, whatever came before it: one of a
\* known type is logged as its case says, one of a type without a case has
\* only its type logged, one that is not JSON has only the failure logged; and
\* the handler leaves this.ws and the socket as they were, so the socket is
\* not closed and the frames after an unusable one are handled as usual.
C21_UnusableFrameIgnored ==
    gatewayLast.op = "message" =>
        /\ ~gatewayLast.threw
        /\ GatewayState = gatewayLast.pre
        /\ sockets[gatewayLast.socket].readyState = gatewayLast.readyState
        /\ gatewayLast.log =
               CASE gatewayLast.frame = "session.created" ->
                        <<<<"Message type: ", "session.created">>,
                          <<"Session created successfully">>>>
                 [] gatewayLast.frame = "response.text.delta" ->
                        <<<<"Message type: ", "response.text.delta">>,
                          <<"stdout: ", "Hi">>>>
                 [] gatewayLast.frame = "unknown.event" ->
                        <<<<"Message type: ", "unknown.event">>>>
                 [] gatewayLast.frame = "undecodable" ->
                        <<<<"Failed to parse message">>>>

\* A frame of a known type was handled right after a frame that is not JSON,
\* on a socket that is still open.
C21_Witness ==
    /\ gatewayLast.op = "message"
    /\ gatewayLast.after = "undecodable"
    /\ gatewayLast.frame = "session.created"
    /\ sockets[gatewayLast.socket].readyState = "OPEN"

\* C26: the body of every request carries the temperature its caller gave,
\* 0 included (runTests gives 0, 0.5 and 1.0); the default 0.7 is in the body
\* only when the caller gave no temperature.
C26_TemperaturePassedOn ==
    \A c \in testCalls :
        c.request.temperature =
            IF "temperature" \in DOMAIN c.options
            THEN c.options.temperature
            ELSE DefaultTemperature

\* C27: the 'stop' event of a recording that the user stopped while the
\* session had a client calls createResponse (once: the event is delivered
\* once), and the 'stop' event of a recording that disconnect() stopped calls
\* no createResponse.
C27_ResponseRequestedOnUserStop ==
    realtimeLast.op = "onstop" =>
        /\ (realtimeLast.stoppedBy = "user" /\ realtimeLast.hadClient)
               => realtimeLast.createResponse
        /\ realtimeLast.stoppedBy = "disconnect"
               => ~realtimeLast.createResponse

\* C25: once conversation.interrupted has been handled, the assistant message
\* that was being shown keeps the text it had at that moment: nothing that
\* arrives later is added to it, and nothing of it is dropped.
C25_InterruptionStopsAccumulation ==
    \A r \in interrupted :
        /\ r.index <= Len(conversationMessages)
        /\ conversationMessages[r.index].text = r.text

\* C31: in the browser chat every assistant message of the log comes right
\* after a user message, so the log never starts with an assistant message;
\* also when the chat is cleared while a request is in flight.
C31_AssistantFollowsUser ==
    \A i \in 1 .. Len(messages) :
        messages[i].role = "assistant" =>
            /\ i > 1
            /\ messages[i - 1].role = "user"

\* C32: recording is never active while the session is disconnected, also
\* when disconnect() runs while startRecording() waits for the microphone.
C32_RecordingImpliesConnected ==
    isRecording => isConnected

\* C33: push-to-talk on the direct voice page: after a press and its release
\* (mouseup or mouseleave) the recorder is eventually stopped: isRecording
\* is false and no microphone track is live or still being asked for; also
\* when the release comes before the microphone has been granted.
C33_ReleaseStopsRecording ==
    (realtimeLast.op \in {"mouseup", "mouseleave"})
        ~> (/\ ~isRecording
            /\ \A k \in StreamIds : streams[k].tracks \notin {"pending", "live"})

\* C34: the URL and the subprotocols connect() opens the WebSocket with are
\* those it would use under any other OpenAI API key, the rest of the
\* configuration being the same; and unless the insecure subprotocol is
\* selected the key is no part of either.
C34_HandshakeIndependentOfKey ==
    \A k \in SocketIds :
        sockets[k].readyState # "UNUSED" =>
            /\ \A key \in {"sk-1", "sk-2", "sk-3"} :
                   LET other == [gatewayConfig EXCEPT !.openaiKey = key]
                   IN  /\ sockets[k].url = GatewayUrl(other)
                       /\ sockets[k].protocols = Protocols(other)
            /\ ~InsecureSubprotocolSelected =>
                   /\ \A i \in 1 .. Len(sockets[k].url) :
                          sockets[k].url[i] # gatewayConfig.openaiKey
                   /\ \A i \in 1 .. Len(sockets[k].protocols) :
                          \A j \in 1 .. Len(sockets[k].protocols[i]) :
                              sockets[k].protocols[i][j] # gatewayConfig.openaiKey

\* A socket has been opened under a configuration with an API key and a
\* gateway token, and its handshake has succeeded.
C34_Witness ==
    \E k \in SocketIds :
        /\ sockets[k].opened
        /\ gatewayConfig.openaiKey = "sk-1"
        /\ gatewayConfig.cfAuthToken = "cf-tok"
        /\ Len(sockets[k].protocols) = 3

C36_ProcessingAlwaysReset ==
    isProcessing ~> (~isProcessing /\ ~sendButtonDisabled)

\* A request of the plain chat has failed, and the page accepts input again.
C36_Witness ==
    /\ program = "chat"
    /\ \E s \in lastChat : s.kind \in {"http", "network", "nochoices", "nomessage"}
    /\ chatSends > 0
    /\ chatCalls = {}
    /\ ~isProcessing
    /\ ~sendButtonDisabled

\* C37: a configuration is valid exactly when accountId, gatewayId and
\* openaiKey are set and, with useAuthGateway on, cfAuthToken too. Under an
\* invalid one no step issues a chat request or creates a client, and
\* ChatManager.sendMessage and RealtimeGatewayManager.connect leave the log,
\* isProcessing, the client and the connection state as they were.
C37_InvalidConfigChangesNothing ==
    [][LET Invalid(cfg) ==
               \/ cfg.accountId = ""
               \/ cfg.gatewayId = ""
               \/ cfg.openaiKey = ""
               \/ cfg.useAuthGateway /\ cfg.cfAuthToken = ""
           Returned ==
               \/ /\ lastChat' # lastChat
                  /\ \E s \in lastChat' : s.kind = "invalid"
               \/ /\ realtimeLast' # realtimeLast
                  /\ realtimeLast'.op = "connect"
       IN  /\ validateConfig(config) <=> ~Invalid(config)
           /\ validateConfig(config') <=> ~Invalid(config')
           /\ Invalid(config) =>
                  /\ \A c \in chatCalls' :
                         c.request \in {d.request : d \in chatCalls}
                  /\ connectCalls' \subseteq connectCalls
                  /\ \A k \in ClientIds :
                         clients'[k] = "connecting" => clients[k] = "connecting"
                  /\ Returned =>
                         UNCHANGED <<messages, isProcessing, sendButtonDisabled,
                                     chatCalls, client, clients, isConnected,
                                     connectionStatus, connectCalls,
                                     disconnectCalls>>]_vars

\* sendMessage has returned on an invalid configuration with an earlier
\* exchange in the log.
C37_Witness ==
    /\ program = "chat"
    /\ ~validateConfig(config)
    /\ \E s \in lastChat : s.kind = "invalid"
    /\ Len(messages) >= 2
    /\ chatCalls = {}

\* C38: runTests leaves conversationHistory as it is, at every one of its
\* steps and whatever the outcome of each test request: the history when the
\* /test command has finished is the one it started with.
C38_RunTestsKeepsHistory ==
    [][(testsPc' # testsPc \/ testCalls' # testCalls \/ testLog' # testLog) =>
           conversationHistory' = conversationHistory]_vars

\* The /test command has run to its end on a chat with one exchange in its
\* history: some test requests succeeded and some failed.
C38_Witness ==
    /\ program = "tests"
    /\ interactive
    /\ Len(conversationHistory) = 3
    /\ testsPc = Len(TestCalls)
    /\ testCalls = {}
    /\ \E i, j \in 1 .. Len(testLog) :
           testLog[i] = "passed" /\ testLog[j] = "failed"

====
